---- MODULE Spec2Model ----
(***************************************************************************)
(* Model of the mission-control terminal dashboard (pkg/ui/model.go):      *)
(* the bubbletea Model, its Update handlers (keys, mouse, resize, project  *)
(* load, status probes, chat results) and the frame rendered after every   *)
(* update.  Strings that the code inspects character by character (project *)
(* names, search text, languages, the motion prefix) are sequences of      *)
(* one-character strings; key names are atomic strings.                    *)
(* A second specification, CacheSpec, models the status probes of one      *)
(* project and the status cache file they share (pkg/discover/discover.go).*)
(***************************************************************************)
EXTENDS Integers, Sequences, FiniteSets, TLC

VARIABLES
  projects,        \* Model.projects
  filtered,        \* Model.filtered
  aliased,         \* TRUE iff filtered shares the backing array of projects
  stats,           \* Model.stats
  selectedIdx,     \* Model.selectedIdx
  scrollOffset,    \* Model.scrollOffset
  viewMode,        \* Model.viewMode
  currentProject,  \* Model.currentProject (pointer into a project array)
  searchText,      \* Model.searchInput.Value()
  chatInput,       \* Model.chatInput.Value()
  chatCwd,         \* Model.chatCwd
  width,           \* Model.width
  height,          \* Model.height
  motionNum,       \* Model.motionNum
  buttonBounds,    \* Model.buttonBounds
  loading,         \* Model.loading
  chatResponse,    \* Model.chatResponse
  chatLoading,     \* Model.chatLoading
  chatError,       \* Model.chatError
  run,             \* "running", "quit" (tea.Quit) or "panic" (index out of range)
  pendingLoads,    \* loadProjectsCmd calls in flight
  pendingProbes,   \* status probes in flight: <<name, kind>> -> count
  pendingChats,    \* sendChatCmd calls in flight (sequence of [message, cwd])
  cmds,            \* commands returned by the last Update
  ev,              \* the last event handled
  nLoads,          \* loads dispatched so far
  nStatus,         \* status results processed so far
  nChats,          \* chat sends dispatched so far
  env,             \* what the collaborators deliver in this run (see Envs)
  typing,          \* history: "/" was pressed in list mode with an empty search
                   \* text and only character keys were pressed since
  cacheFile,       \* the ProjectCache stored in <project>/.hustlemc/status.json
  cacheAge,        \* "absent", "fresh" or "expired" (UpdatedAt older than CacheTTL)
  repoLast,        \* the time of the newest commit of the project's repository
  probe,           \* the running probe of each kind: position and locals
  written,         \* history: the value last saved for each cache field
  aged,            \* history: the cache file has expired at some time
  nCalls           \* probe calls started so far

\* the variables of the dashboard
uiVars == <<projects, filtered, aliased, stats, selectedIdx, scrollOffset,
            viewMode, currentProject, searchText, chatInput, chatCwd, width,
            height, motionNum, loading, chatResponse, chatLoading, chatError,
            run, pendingLoads, pendingProbes, pendingChats, cmds, ev,
            nLoads, nStatus, nChats, env, buttonBounds, typing>>

\* the variables of the probes and their cache file
cacheVars == <<cacheFile, cacheAge, repoLast, probe, written, aged, nCalls>>

vars == <<projects, filtered, aliased, stats, selectedIdx, scrollOffset,
          viewMode, currentProject, searchText, chatInput, chatCwd, width,
          height, motionNum, loading, chatResponse, chatLoading, chatError,
          run, pendingLoads, pendingProbes, pendingChats, cmds, ev,
          nLoads, nStatus, nChats, env, buttonBounds, typing,
          cacheFile, cacheAge, repoLast, probe, written, aged, nCalls>>

\* ------------------------------------------------------------------------
\* Bounds of the model
\* ------------------------------------------------------------------------
MaxLoads == 2
MaxStatus == 2
MaxChats == 1
MaxPrefixLen == 2
MaxSearchLen == 1
MaxChatLen == 1
MaxCalls == 3
MaxCommits == 1

\* ------------------------------------------------------------------------
\* Program constants
\* ------------------------------------------------------------------------
SearchCharLimit == 50
ChatCharLimit == 500
ChromeHeight == 8
MinListHeight == 5
ListStartY == 3

\* ------------------------------------------------------------------------
\* Small helpers (Go builtins and package strings)
\* ------------------------------------------------------------------------
min(a, b) == IF a < b THEN a ELSE b

maxInt(a, b) == IF a > b THEN a ELSE b

ToLowerChar(c) ==
  CASE c = "A" -> "a" [] c = "B" -> "b" [] c = "C" -> "c" [] c = "D" -> "d"
    [] c = "G" -> "g" [] c = "J" -> "j" [] c = "S" -> "s" [] c = "T" -> "t"
    [] c = "X" -> "x" [] OTHER -> c

ToLower(s) == [i \in 1..Len(s) |-> ToLowerChar(s[i])]

\* strings.Contains(s, sub)
Contains(s, sub) ==
  \E i \in 0..(Len(s) - Len(sub)) : SubSeq(s, i + 1, i + Len(sub)) = sub

\* strings.HasPrefix(s, pre)
HasPrefix(s, pre) == Len(s) >= Len(pre) /\ SubSeq(s, 1, Len(pre)) = pre

RECURSIVE Sum(_)
Sum(s) == IF s = <<>> THEN 0 ELSE Head(s) + Sum(Tail(s))

\* number of projects in the given deployment state
Count(ps, state) == Cardinality({i \in 1..Len(ps) : ps[i].VercelState = state})

\* ------------------------------------------------------------------------
\* Types (model.go TYPES section)
\* ------------------------------------------------------------------------
ViewModes == {"ListView", "DetailView", "SearchMode", "ChatMode", "HelpMode"}

Kinds == {"git", "gh", "vercel", "times", "language"}

\* the zero time.Time
ZeroTime == 0

\* a nil *discover.GitStatus / *discover.GitHubStatus
Nil == [nil |-> TRUE]

\* m.currentProject == nil
NoProject == [nil |-> TRUE]

HomeDir == <<"/home">>

\* filepath.Join(homeDir, "Projects")
ProjectsRoot == HomeDir \o <<"Projects">>

\* expandPath: a leading "~/" is replaced by the home directory
expandPath(path) ==
  IF HasPrefix(path, <<"~/">>) THEN HomeDir \o Tail(path) ELSE path

\* The Project literal built by loadProjectsCmd: every status field is zero.
NewProject(d) ==
  [Name |-> d.Name, Path |-> d.Path,
   Type |-> CASE d.Type = "vercel" -> "vercel"
              [] d.Type = "swift" -> "swift"
              [] OTHER -> "git",
   Language |-> <<>>, FirstCommit |-> ZeroTime, LastCommit |-> ZeroTime,
   Staged |-> 0, Untracked |-> 0, Modified |-> 0, Issues |-> 0, PRs |-> 0,
   VercelState |-> ""]

\* a loadProjectsCmd that answers a failed discovery with the list already shown
LoadedProjectsKeepsOnError(result) ==
  IF result.err THEN projects
  ELSE [i \in 1..Len(result.discovered) |-> NewProject(result.discovered[i])]

\* loadProjectsCmd: a failed discovery yields the empty list
LoadedProjects(result) ==
  IF result.err THEN <<>>
  ELSE [i \in 1..Len(result.discovered) |-> NewProject(result.discovered[i])]

ZeroStats ==
  [VercelReady |-> 0, VercelBuilding |-> 0, VercelQueued |-> 0,
   VercelFailed |-> 0, TotalStaged |-> 0, TotalUntracked |-> 0,
   TotalModified |-> 0, TotalIssues |-> 0, TotalPRs |-> 0,
   TotalProjects |-> 0]

\* Model.updateStats: a full refold of the project list
updateStats(ps) ==
  [VercelReady |-> Count(ps, "ready"),
   VercelBuilding |-> Count(ps, "building"),
   VercelQueued |-> Count(ps, "queued"),
   VercelFailed |-> Count(ps, "failed"),
   TotalStaged |-> Sum([i \in 1..Len(ps) |-> ps[i].Staged]),
   TotalUntracked |-> Sum([i \in 1..Len(ps) |-> ps[i].Untracked]),
   TotalModified |-> Sum([i \in 1..Len(ps) |-> ps[i].Modified]),
   TotalIssues |-> Sum([i \in 1..Len(ps) |-> ps[i].Issues]),
   TotalPRs |-> Sum([i \in 1..Len(ps) |-> ps[i].PRs]),
   TotalProjects |-> Len(ps)]

\* the name filter shared by syncFiltered and handleSearchKey
Matches(p, query) == Contains(ToLower(p.Name), query)

\* Model.syncFiltered: the value of m.filtered afterwards
syncFiltered(ps, text) ==
  LET query == ToLower(text)
  IN IF query = <<>> THEN ps
     ELSE SelectSeq(ps, LAMBDA p : Matches(p, query))

\* index of the first project called name, 0 when there is none
\* (the `for i := range m.projects` loops of Update, which break on a match)
IndexOf(ps, name) ==
  IF \E i \in 1..Len(ps) : ps[i].Name = name
  THEN CHOOSE i \in 1..Len(ps) :
         /\ ps[i].Name = name
         /\ \A j \in 1..(i - 1) : ps[j].Name # name
  ELSE 0

\* ------------------------------------------------------------------------
\* detectProjectType.  markers is the set of marker files that os.Stat finds
\* in the project directory when the function runs.
\* ------------------------------------------------------------------------
LangType(lang) ==
  CASE Contains(lang, <<"g", "o">>) -> "go"
    [] Contains(lang, <<"c">>) /\ ~Contains(lang, <<"c", "s", "s">>) ->
         IF lang = <<"c">> \/ HasPrefix(lang, <<"c", " ">>) THEN "c" ELSE "git"
    [] Contains(lang, <<"p", "y", "t", "h", "o", "n">>) -> "python"
    [] Contains(lang, <<"r", "u", "b", "y">>) -> "ruby"
    [] Contains(lang, <<"r", "u", "s", "t">>) -> "rust"
    [] Contains(lang, <<"l", "u", "a">>) -> "lua"
    [] Contains(lang, <<"h", "t", "m", "l">>) -> "html"
    [] Contains(lang, <<"c", "s", "s">>) -> "css"
    [] Contains(lang, <<"p", "h", "p">>) -> "php"
    [] Contains(lang, <<"j", "a", "v", "a">>)
         /\ ~Contains(lang, <<"j", "a", "v", "a", "s", "c", "r", "i", "p", "t">>) -> "java"
    [] Contains(lang, <<"m", "a", "r", "k", "d", "o", "w", "n">>) -> "markdown"
    [] Contains(lang, <<"j", "s", "o", "n">>) -> "json"
    [] \/ Contains(lang, <<"t", "s", "x">>)
       \/ Contains(lang, <<"t", "y", "p", "e", "s", "c", "r", "i", "p", "t">>)
       \/ Contains(lang, <<"j", "a", "v", "a", "s", "c", "r", "i", "p", "t">>) -> "vercel"
    [] OTHER -> "git"

detectProjectType(p, markers) ==
  LET name == ToLower(p.Name)
      lang == ToLower(p.Language)
  IN CASE ".vercel" \in markers -> "vercel"
       [] "Package.swift" \in markers -> "swift"
       [] \/ Contains(name, <<"w", "o", "r", "d", "p", "r", "e", "s", "s">>)
          \/ Contains(name, <<"w", "p", "-">>) -> "wordpress"
       [] "wp-config.php" \in markers -> "wordpress"
       [] \/ Contains(name, <<"e", "x", "t", "e", "n", "s", "i", "o", "n">>)
          \/ Contains(name, <<"c", "h", "r", "o", "m", "e">>) -> "chrome"
       [] "manifest.json" \in markers -> "chrome"
       [] \/ name = <<"d", "o", "t", "f", "i", "l", "e", "s">>
          \/ HasPrefix(name, <<".">>)
          \/ Contains(name, <<"z", "s", "h">>)
          \/ Contains(name, <<"b", "a", "s", "h">>) -> "terminal"
       [] "Dockerfile" \in markers -> "docker"
       [] OTHER -> LangType(lang)

\* ------------------------------------------------------------------------
\* Update, status messages: the project list after the in-place assignment
\* ------------------------------------------------------------------------
\* A faulty gitStatusMsg case, for the sensitivity of C4: the matched project
\* is overwritten with a fresh struct that carries only the git counts, so
\* its GitHub counts fall back to zero.
ApplyGitStatusClobber(ps, name, status) ==
  LET i == IndexOf(ps, name)
  IN IF i = 0 \/ status = Nil THEN ps
     ELSE [ps EXCEPT ![i].Staged = status.Staged,
                     ![i].Untracked = status.Untracked,
                     ![i].Modified = status.Modified,
                     ![i].Issues = 0,
                     ![i].PRs = 0]

\* A faulty gitTimesMsg case, for the sensitivity of C3: when no name matches,
\* the loop index is left on the last project and that project is written.
ApplyGitTimesStale(ps, name, times) ==
  LET i == IF IndexOf(ps, name) = 0 THEN Len(ps) ELSE IndexOf(ps, name)
  IN IF i = 0 THEN ps
     ELSE [ps EXCEPT ![i].FirstCommit = times.firstCommit,
                     ![i].LastCommit = times.lastCommit]

\* case gitStatusMsg
ApplyGitStatus(ps, name, status) ==
  LET i == IndexOf(ps, name)
  IN IF i = 0 \/ status = Nil THEN ps
     ELSE [ps EXCEPT ![i].Staged = status.Staged,
                     ![i].Untracked = status.Untracked,
                     ![i].Modified = status.Modified]

\* case ghStatusMsg
ApplyGHStatus(ps, name, status) ==
  LET i == IndexOf(ps, name)
  IN IF i = 0 \/ status = Nil THEN ps
     ELSE [ps EXCEPT ![i].Issues = status.Issues, ![i].PRs = status.PRs]

\* case vercelStatusMsg
ApplyVercelStatus(ps, name, state) ==
  LET i == IndexOf(ps, name)
  IN IF i = 0 THEN ps ELSE [ps EXCEPT ![i].VercelState = state]

\* case gitTimesMsg
ApplyGitTimes(ps, name, times) ==
  LET i == IndexOf(ps, name)
  IN IF i = 0 THEN ps
     ELSE [ps EXCEPT ![i].FirstCommit = times.firstCommit,
                     ![i].LastCommit = times.lastCommit]

\* a languageMsg handler that keeps a language once one is known
ApplyLanguageKeepsFirst(ps, name, result) ==
  LET i == IndexOf(ps, name)
  IN IF i = 0 \/ ps[i].Language # <<>> THEN ps
     ELSE LET q == [ps[i] EXCEPT !.Language = result.language]
          IN [ps EXCEPT ![i] = [q EXCEPT !.Type = detectProjectType(q, result.markers)]]

\* case languageMsg
ApplyLanguage(ps, name, result) ==
  LET i == IndexOf(ps, name)
  IN IF i = 0 THEN ps
     ELSE LET q == [ps[i] EXCEPT !.Language = result.language]
          IN [ps EXCEPT ![i] = [q EXCEPT !.Type = detectProjectType(q, result.markers)]]

\* the registry after a status message of the given kind
ApplyStatus(ps, kind, name, value) ==
  CASE kind = "git" -> ApplyGitStatus(ps, name, value)
    [] kind = "gh" -> ApplyGHStatus(ps, name, value)
    [] kind = "vercel" -> ApplyVercelStatus(ps, name, value)
    [] kind = "times" -> ApplyGitTimes(ps, name, value)
    [] kind = "language" -> ApplyLanguage(ps, name, value)

\* which status handlers end with m.updateStats() / m.syncFiltered()
CallsUpdateStats(kind) == kind \in {"git", "gh", "vercel"}

CallsSyncFiltered(kind) == kind \in {"git", "vercel", "times", "language"}

\* ------------------------------------------------------------------------
\* Inputs: what the collaborators (discovery, probes, terminal) can deliver
\* ------------------------------------------------------------------------
Disc(name, type) == [Name |-> name, Path |-> <<"~/">> \o name, Type |-> type]

dAb == Disc(<<"A", "b">>, "vercel")
dC == Disc(<<"c">>, "cli")
dD == Disc(<<"d">>, "cli")
dE == Disc(<<"e">>, "swift")
dF == Disc(<<"f">>, "cli")
dG == Disc(<<"g">>, "cli")
dH == Disc(<<"h">>, "cli")

AllNames == {dAb.Name, dC.Name, dD.Name, dE.Name, dF.Name, dG.Name, dH.Name}

GitResults == {Nil, [Staged |-> 1, Untracked |-> 5, Modified |-> 0]}

GHResults == {Nil, [Issues |-> 2, PRs |-> 1]}

VercelResults == {"ready", "failed"}

TimesResults == {[firstCommit |-> 1, lastCommit |-> 2]}

LanguageResults ==
  {[language |-> <<"G", "o">>, markers |-> {}],
   [language |-> <<"T", "S", "X">>, markers |-> {".vercel"}]}

ProbeResults(kind) ==
  CASE kind = "git" -> GitResults
    [] kind = "gh" -> GHResults
    [] kind = "vercel" -> VercelResults
    [] kind = "times" -> TimesResults
    [] kind = "language" -> LanguageResults

\* ------------------------------------------------------------------------
\* Viewport
\* ------------------------------------------------------------------------
\* Model.getListHeight
getListHeight(h) == maxInt(h - ChromeHeight, MinListHeight)

\* Model.ensureVisible: the scroll offset afterwards
ensureVisible(sel, scroll, listHeight) ==
  IF sel < scroll THEN sel
  ELSE IF sel >= scroll + listHeight THEN sel - listHeight + 1
  ELSE scroll

\* Go's integer division, which truncates toward zero
Quot(a, b) ==
  IF (a >= 0) = (b > 0) THEN (IF a >= 0 THEN a ELSE -a) \div (IF b > 0 THEN b ELSE -b)
  ELSE -((IF a >= 0 THEN a ELSE -a) \div (IF b > 0 THEN b ELSE -b))

\* RenderScrollbar: the thumb it draws, none when the list fits
RenderScrollbar(current, total, rows) ==
  IF total <= rows THEN [thumb |-> FALSE]
  ELSE LET thumbSize == maxInt(1, Quot(rows * rows, total))
           thumbPos == Quot(current * (rows - thumbSize), total - rows)
       IN [thumb |-> TRUE, thumbSize |-> thumbSize, thumbPos |-> thumbPos]

\* View after an Update: renderProjectList indexes m.filtered[i] from
\* i = m.scrollOffset while i < len(m.filtered) and i < m.scrollOffset +
\* listHeight, so a negative offset enters the loop (also on an empty list)
\* and the index panics.
ViewPanics(w, ld, mode, scroll, flt) ==
  /\ w # 0
  /\ ~ld
  /\ mode \notin {"HelpMode", "DetailView"}
  /\ scroll < 0
  /\ scroll < Len(flt)

\* the program state after the frame that follows an Update is rendered
AfterView(w, ld, mode, scroll, flt) ==
  IF ViewPanics(w, ld, mode, scroll, flt) THEN "panic" ELSE "running"

\* ------------------------------------------------------------------------
\* Update: asynchronous messages
\* ------------------------------------------------------------------------
\* m.currentProject points into a project array.  live > 0: element live of
\* the array m.projects currently uses, so in-place updates show through the
\* pointer; live = 0: an array nothing writes to any more.
Retarget(cp, ps) ==
  IF cp = NoProject \/ cp.live = 0 THEN cp ELSE [cp EXCEPT !.val = ps[cp.live]]

Detach(cp) == IF cp = NoProject THEN cp ELSE [cp EXCEPT !.live = 0]

\* the probes that projectsLoadedMsg starts for project p, in dispatch order
ProbesFor(p) ==
  <<"git", "times", "language">>
    \o (IF p.Type = "vercel" THEN <<"vercel">> ELSE <<>>)
    \o <<"gh">>

ProbeCmds(p) ==
  LET ks == ProbesFor(p)
  IN [i \in 1..Len(ks) |-> [cmd |-> "probe", kind |-> ks[i], name |-> p.Name, path |-> p.Path]]

RECURSIVE LoadCmds(_)
LoadCmds(ps) == IF ps = <<>> THEN <<>> ELSE ProbeCmds(Head(ps)) \o LoadCmds(Tail(ps))

\* in-flight probes after the commands cs have been started
Started(pend, cs) ==
  [k \in DOMAIN pend |->
     pend[k] + Cardinality({i \in 1..Len(cs) : <<cs[i].name, cs[i].kind>> = k})]

\* case projectsLoadedMsg
ProjectsLoaded(result) ==
  /\ run = "running"
  /\ UNCHANGED cacheVars
  /\ pendingLoads > 0
  /\ pendingLoads' = pendingLoads - 1
  /\ projects' = LoadedProjects(result)
  /\ filtered' = projects'
  /\ aliased' = TRUE
  /\ loading' = FALSE
  /\ stats' = [stats EXCEPT !.TotalProjects = Len(projects')]
  /\ cmds' = LoadCmds(projects')
  /\ pendingProbes' = Started(pendingProbes, cmds')
  /\ currentProject' = Detach(currentProject)
  /\ ev' = [type |-> "projectsLoaded", result |-> result]
  /\ run' = AfterView(width, loading', viewMode, scrollOffset, filtered')
  /\ UNCHANGED <<selectedIdx, scrollOffset, viewMode, searchText, chatInput,
                 chatCwd, width, height, motionNum, chatResponse, chatLoading,
                 chatError, pendingChats, nLoads, nStatus, nChats, env, buttonBounds, typing>>

\* the number of status results one run may process: MaxStatus, and in the
\* environment that lets a load settle, the number of probes of its largest load
StatusBudget ==
  IF "settle" \in DOMAIN env
  THEN LET loads == {Len(LoadCmds(LoadedProjects([err |-> FALSE, discovered |-> l]))) :
                       l \in env.lists}
       IN maxInt(MaxStatus, CHOOSE n \in loads : \A k \in loads : k <= n)
  ELSE MaxStatus

\* status handlers that show the whole list again after merging a result
StatusMsgDropsSearch(kind, name, value) ==
  /\ run = "running"
  /\ UNCHANGED cacheVars
  /\ nStatus < StatusBudget
  /\ pendingProbes[<<name, kind>>] > 0
  /\ pendingProbes' = [pendingProbes EXCEPT ![<<name, kind>>] = @ - 1]
  /\ nStatus' = nStatus + 1
  /\ projects' = ApplyStatus(projects, kind, name, value)
  /\ stats' = IF CallsUpdateStats(kind) THEN updateStats(projects') ELSE stats
  /\ filtered' = projects'
  /\ searchText' = <<>>
  /\ aliased' = TRUE
  /\ currentProject' = Retarget(currentProject, projects')
  /\ cmds' = <<>>
  /\ ev' = [type |-> "status", kind |-> kind, name |-> name, value |-> value,
            known |-> IndexOf(projects, name) # 0,
            prev |-> IF IndexOf(projects, name) = 0 THEN NoProject
                     ELSE projects[IndexOf(projects, name)]]
  /\ run' = AfterView(width, loading, viewMode, scrollOffset, filtered')
  /\ UNCHANGED <<selectedIdx, scrollOffset, viewMode, chatInput,
                 chatCwd, width, height, motionNum, loading, chatResponse,
                 chatLoading, chatError, pendingLoads, pendingChats, nLoads,
                 nChats, env, buttonBounds, typing>>

\* cases gitStatusMsg, ghStatusMsg, vercelStatusMsg, gitTimesMsg, languageMsg
StatusMsg(kind, name, value) ==
  /\ run = "running"
  /\ UNCHANGED cacheVars
  /\ nStatus < StatusBudget
  /\ pendingProbes[<<name, kind>>] > 0
  /\ pendingProbes' = [pendingProbes EXCEPT ![<<name, kind>>] = @ - 1]
  /\ nStatus' = nStatus + 1
  /\ projects' = ApplyStatus(projects, kind, name, value)
  /\ stats' = IF CallsUpdateStats(kind) THEN updateStats(projects') ELSE stats
  /\ filtered' = IF CallsSyncFiltered(kind) THEN syncFiltered(projects', searchText)
                 ELSE IF aliased THEN projects'
                 ELSE filtered
  /\ aliased' = IF CallsSyncFiltered(kind) THEN ToLower(searchText) = <<>> ELSE aliased
  /\ currentProject' = Retarget(currentProject, projects')
  /\ cmds' = <<>>
  /\ ev' = [type |-> "status", kind |-> kind, name |-> name, value |-> value,
            known |-> IndexOf(projects, name) # 0,
            prev |-> IF IndexOf(projects, name) = 0 THEN NoProject
                     ELSE projects[IndexOf(projects, name)]]
  /\ run' = AfterView(width, loading, viewMode, scrollOffset, filtered')
  /\ UNCHANGED <<selectedIdx, scrollOffset, viewMode, searchText, chatInput,
                 chatCwd, width, height, motionNum, loading, chatResponse,
                 chatLoading, chatError, pendingLoads, pendingChats, nLoads,
                 nChats, env, buttonBounds, typing>>

\* case tea.WindowSizeMsg
WindowSize(size) ==
  /\ run = "running"
  /\ UNCHANGED cacheVars
  /\ width' = size[1]
  /\ height' = size[2]
  /\ cmds' = <<>>
  /\ ev' = [type |-> "resize"]
  /\ run' = AfterView(width', loading, viewMode, scrollOffset, filtered)
  /\ UNCHANGED <<projects, filtered, aliased, stats, selectedIdx, scrollOffset,
                 viewMode, currentProject, searchText, chatInput, chatCwd,
                 motionNum, loading, chatResponse, chatLoading, chatError,
                 pendingLoads, pendingProbes, pendingChats, nLoads, nStatus,
                 nChats, env, buttonBounds, typing>>

\* ------------------------------------------------------------------------
\* Key handling
\* ------------------------------------------------------------------------
Digits == {"0", "1", "2", "3", "4", "5", "6", "7", "8", "9"}

DigitVal(c) ==
  CASE c = "0" -> 0 [] c = "1" -> 1 [] c = "2" -> 2 [] c = "3" -> 3
    [] c = "4" -> 4 [] c = "5" -> 5 [] c = "6" -> 6 [] c = "7" -> 7
    [] c = "8" -> 8 [] c = "9" -> 9

RECURSIVE ParseDecimal(_)
ParseDecimal(s) ==
  IF s = <<>> THEN 0
  ELSE ParseDecimal(SubSeq(s, 1, Len(s) - 1)) * 10 + DigitVal(s[Len(s)])

\* the decimal digits of math.MaxInt64
MaxInt64Digits ==
  <<"9", "2", "2", "3", "3", "7", "2", "0", "3", "6", "8", "5", "4", "7", "7",
    "5", "8", "0", "7">>

\* digit strings of equal length compare like the numbers they spell
RECURSIVE DigitsGreater(_, _)
DigitsGreater(a, b) ==
  IF a = <<>> THEN FALSE
  ELSE IF DigitVal(Head(a)) # DigitVal(Head(b)) THEN DigitVal(Head(a)) > DigitVal(Head(b))
  ELSE DigitsGreater(Tail(a), Tail(b))

ExceedsInt64(s) ==
  \/ Len(s) > Len(MaxInt64Digits)
  \/ Len(s) = Len(MaxInt64Digits) /\ DigitsGreater(s, MaxInt64Digits)

\* count := 1; fmt.Sscanf(m.motionNum, "%d", &count): a number that does not
\* fit an int is a scan error, which leaves count at 1
MotionCount(mn) ==
  IF mn = <<>> \/ ExceedsInt64(mn) THEN 1 ELSE ParseDecimal(mn)

\* the first branch of handleListKey: the key extends the motion prefix
ExtendsPrefix(key, mn) == key \in Digits /\ (mn # <<>> \/ key # "0")

EditorCmd(path, file) == [cmd |-> "editor", path |-> path, file |-> file]

\* The switch of handleListKey on a model m (a record of the fields the switch
\* reads and writes), with the count taken from the motion prefix.  The
\* result has panic set when the branch indexes m.filtered out of range.
ListSwitch(m, key, count) ==
  LET n == Len(m.filtered)
      listHeight == getListHeight(m.height)
      ok == m.selectedIdx >= 0 /\ m.selectedIdx < n
      sel == m.filtered[m.selectedIdx + 1]
      Move(s) == [m EXCEPT !.selectedIdx = s,
                           !.scrollOffset = ensureVisible(s, m.scrollOffset, listHeight)]
      OnSelected(r) == IF n > 0 THEN (IF ok THEN r ELSE [m EXCEPT !.panic = TRUE]) ELSE m
  IN CASE key \in {"j", "down"} -> Move(min(m.selectedIdx + count, n - 1))
       [] key \in {"k", "up"} -> Move(maxInt(m.selectedIdx - count, 0))
       [] key = "g" -> [m EXCEPT !.selectedIdx = 0, !.scrollOffset = 0]
       [] key = "G" -> Move(n - 1)
       [] key = "ctrl+d" -> Move(min(m.selectedIdx + listHeight \div 2, n - 1))
       [] key = "ctrl+u" -> Move(maxInt(m.selectedIdx - listHeight \div 2, 0))
       [] key = "/" -> [m EXCEPT !.viewMode = "SearchMode", !.cmds = <<[cmd |-> "blink"]>>]
       [] key = "C" -> [m EXCEPT !.chatCwd = ProjectsRoot, !.viewMode = "ChatMode",
                                 !.cmds = <<[cmd |-> "blink"]>>]
       [] key = "c" ->
            IF n > 0 /\ ~ok THEN [m EXCEPT !.panic = TRUE]
            ELSE [m EXCEPT !.chatCwd = IF n > 0 THEN expandPath(sel.Path) ELSE @,
                           !.viewMode = "ChatMode", !.cmds = <<[cmd |-> "blink"]>>]
       [] key = "enter" ->
            OnSelected([m EXCEPT !.currentProject =
                                   [val |-> sel,
                                    live |-> IF m.aliased THEN m.selectedIdx + 1 ELSE 0],
                                 !.viewMode = "DetailView"])
       [] key = "o" -> OnSelected([m EXCEPT !.cmds = <<EditorCmd(sel.Path, "")>>])
       [] key = "r" -> OnSelected([m EXCEPT !.cmds = <<EditorCmd(sel.Path, "README.md")>>])
       [] key = "R" -> OnSelected([m EXCEPT !.cmds = <<EditorCmd(sel.Path, "ROADMAP.md")>>])
       [] key = "p" -> OnSelected([m EXCEPT !.cmds = <<EditorCmd(sel.Path, "PLAN.md")>>])
       [] key = "t" -> OnSelected([m EXCEPT !.cmds = <<EditorCmd(sel.Path, "TODO.md")>>])
       [] key = "l" -> OnSelected([m EXCEPT !.cmds = <<[cmd |-> "lazygit", path |-> sel.Path]>>])
       [] key = "d" ->
            OnSelected(IF sel.Type = "vercel"
                       THEN [m EXCEPT !.cmds = <<[cmd |-> "production", name |-> sel.Name]>>]
                       ELSE m)
       [] key = "?" -> [m EXCEPT !.viewMode = "HelpMode"]
       [] key = "ctrl+r" -> [m EXCEPT !.loading = TRUE, !.cmds = <<[cmd |-> "load"]>>]
       [] OTHER -> m

\* Model.handleListKey
handleListKey(m, key) ==
  IF ExtendsPrefix(key, m.motionNum)
  THEN [m EXCEPT !.motionNum = Append(@, key)]
  ELSE ListSwitch([m EXCEPT !.motionNum = <<>>], key, MotionCount(m.motionNum))

\* single-rune keys: what textinput inserts into a focused input
Runes == Digits \cup {"j", "k", "g", "G", "/", "C", "c", "o", "r", "R", "p", "t",
                      "l", "d", "?", "q", "B", "x", "m"}

\* textinput.Model.Update on a focused input whose cursor is at the end of
\* the text: a rune is appended unless the character limit is reached,
\* backspace deletes the last character, other keys leave the value alone
TextInputUpdate(text, key, limit) ==
  IF key \in Runes THEN (IF Len(text) < limit THEN Append(text, key) ELSE text)
  ELSE IF key = "backspace" /\ text # <<>> THEN SubSeq(text, 1, Len(text) - 1)
  ELSE text

\* Model.handleSearchKey
handleSearchKey(m, key) ==
  IF key = "enter" THEN [m EXCEPT !.viewMode = "ListView"]
  ELSE IF key = "esc"
  THEN [m EXCEPT !.viewMode = "ListView", !.searchText = <<>>,
                 !.filtered = m.projects, !.aliased = TRUE]
  ELSE LET text == TextInputUpdate(m.searchText, key, SearchCharLimit)
           query == ToLower(text)
       IN [m EXCEPT !.searchText = text,
                    !.filtered = IF query = <<>> THEN m.projects
                                 ELSE SelectSeq(m.projects, LAMBDA p : Matches(p, query)),
                    !.aliased = (query = <<>>),
                    !.selectedIdx = 0,
                    !.scrollOffset = 0]

\* A faulty handleChatKey, for the sensitivity of C15: Enter sends the input
\* even when it is empty.
handleChatKeySendsEmpty(m, key) ==
  IF key = "enter"
  THEN [m EXCEPT !.chatInput = <<>>, !.chatLoading = TRUE,
                 !.chatResponse = "", !.chatError = "",
                 !.cmds = <<[cmd |-> "sendChat", message |-> m.chatInput,
                             cwd |-> m.chatCwd]>>]
  ELSE IF key = "esc"
  THEN [m EXCEPT !.viewMode = "ListView", !.chatResponse = "", !.chatError = ""]
  ELSE [m EXCEPT !.chatInput = TextInputUpdate(@, key, ChatCharLimit)]

\* Model.handleChatKey
handleChatKey(m, key) ==
  IF key = "enter"
  THEN IF m.chatInput = <<>> THEN m
       ELSE [m EXCEPT !.chatInput = <<>>, !.chatLoading = TRUE,
                      !.chatResponse = "", !.chatError = "",
                      !.cmds = <<[cmd |-> "sendChat", message |-> m.chatInput,
                                  cwd |-> m.chatCwd]>>]
  ELSE IF key = "esc"
  THEN [m EXCEPT !.viewMode = "ListView", !.chatResponse = "", !.chatError = ""]
  ELSE [m EXCEPT !.chatInput = TextInputUpdate(@, key, ChatCharLimit)]

\* A faulty handleKey, for the sensitivity of C11: Esc leaves the chat
\* response and the chat error in place.
handleKeyEscKeepsChat(m, key) ==
  IF key \in {"q", "ctrl+c"}
  THEN IF m.viewMode = "ListView" THEN [m EXCEPT !.cmds = <<[cmd |-> "quit"]>>]
       ELSE [m EXCEPT !.viewMode = "ListView"]
  ELSE IF key = "esc"
  THEN IF m.viewMode # "ListView"
       THEN [m EXCEPT !.viewMode = "ListView", !.searchText = <<>>,
                      !.chatInput = <<>>, !.filtered = m.projects,
                      !.aliased = TRUE]
       ELSE m
  ELSE IF m.viewMode = "SearchMode" THEN handleSearchKey(m, key)
  ELSE IF m.viewMode = "ChatMode" THEN handleChatKey(m, key)
  ELSE handleListKey(m, key)

\* Model.handleKey
handleKey(m, key) ==
  IF key \in {"q", "ctrl+c"}
  THEN IF m.viewMode = "ListView" THEN [m EXCEPT !.cmds = <<[cmd |-> "quit"]>>]
       ELSE [m EXCEPT !.viewMode = "ListView"]
  ELSE IF key = "esc"
  THEN IF m.viewMode # "ListView"
       THEN [m EXCEPT !.viewMode = "ListView", !.searchText = <<>>,
                      !.chatInput = <<>>, !.filtered = m.projects,
                      !.aliased = TRUE, !.chatResponse = "", !.chatError = ""]
       ELSE m
  ELSE IF m.viewMode = "SearchMode" THEN handleSearchKey(m, key)
  ELSE IF m.viewMode = "ChatMode" THEN handleChatKey(m, key)
  ELSE handleListKey(m, key)

\* ------------------------------------------------------------------------
\* The action buttons a frame draws (renderProjectList / renderProjectRow)
\* ------------------------------------------------------------------------
\* the actions of buttonIcons, in drawing order
ButtonIcons ==
  <<"push", "merge", "run", "deploy", "readme", "roadmap", "plan", "todo", "chat">>

\* lipgloss.Width of one button icon
IconWidth == 1

\* lipgloss.Width(content): seg1 (20) + seg2 (13) + seg3 (13) + seg4 (8) for
\* counts of at most two digits
ContentWidth == 54

\* lipgloss.Width(actions): a leading space, the icons, a space between them
ActionsWidth == 1 + Len(ButtonIcons) * IconWidth + (Len(ButtonIcons) - 1)

\* the bounds renderProjectRow appends for viewport row rowNum; w is the
\* width of the row
RowButtons(w, rowNum) ==
  LET gap == maxInt(w - ContentWidth - ActionsWidth, 0)
      buttonsStartX == ContentWidth + gap + 1
  IN [k \in 1..Len(ButtonIcons) |->
        [StartX |-> buttonsStartX + (k - 1) * (IconWidth + 1),
         EndX |-> buttonsStartX + (k - 1) * (IconWidth + 1) + IconWidth,
         Action |-> ButtonIcons[k],
         Row |-> rowNum]]

\* the bounds renderProjectList collects: those of the rows it draws, from
\* i = scroll while i < n and i < scroll + listHeight
RECURSIVE ListButtons(_, _, _)
ListButtons(w, rowNum, rows) ==
  IF rowNum >= rows THEN <<>>
  ELSE RowButtons(w, rowNum) \o ListButtons(w, rowNum + 1, rows)

\* the button regions on the frame View renders for a model
DrawnButtons(w, h, ld, mode, scroll, n) ==
  IF w = 0 \/ ld \/ mode \in {"HelpMode", "DetailView"} \/ scroll < 0 THEN <<>>
  ELSE ListButtons(w - 3, 0, min(n, scroll + getListHeight(h)) - scroll)

\* A faulty handleMouse, for the sensitivity of C19: the clicked row is used
\* as the project index without adding the scroll offset.
handleMouseIgnoresScroll(m, msg) ==
  LET listHeight == getListHeight(m.height)
      clickedRow == msg.y - ListStartY
  IN IF msg.type # "left" THEN m
     ELSE IF ~(msg.y >= ListStartY /\ msg.y < ListStartY + listHeight) THEN m
     ELSE IF ~(clickedRow < Len(m.filtered)) THEN m
     ELSE [m EXCEPT !.selectedIdx = clickedRow]

\* Model.handleMouse; msg is [type, x, y]
handleMouse(m, msg) ==
  LET listHeight == getListHeight(m.height)
      clickedRow == msg.y - ListStartY
      projectIdx == m.scrollOffset + clickedRow
      hits == {i \in 1..Len(m.buttonBounds) :
                 /\ m.buttonBounds[i].Row = clickedRow
                 /\ msg.x >= m.buttonBounds[i].StartX
                 /\ msg.x < m.buttonBounds[i].EndX}
  IN IF msg.type # "left" THEN m
     ELSE IF ~(msg.y >= ListStartY /\ msg.y < ListStartY + listHeight) THEN m
     ELSE IF ~(projectIdx < Len(m.filtered)) THEN m
     ELSE IF hits # {}
     THEN IF projectIdx < 0 THEN [m EXCEPT !.panic = TRUE]
          ELSE [m EXCEPT !.cmds = <<[cmd |-> "action",
                                     action |-> m.buttonBounds[CHOOSE i \in hits :
                                                  \A j \in hits : i <= j].Action,
                                     project |-> m.filtered[projectIdx + 1]]>>]
     ELSE [m EXCEPT !.selectedIdx = projectIdx]

\* Model.renderChatBox: what the chat box displays
renderChatBox(ld, err, resp, mode, input) ==
  IF ld THEN [kind |-> "thinking", text |-> ""]
  ELSE IF err # "" THEN [kind |-> "error", text |-> err]
  ELSE IF resp # "" THEN [kind |-> "response", text |-> resp]
  ELSE IF mode = "ChatMode" THEN [kind |-> "input", text |-> input]
  ELSE [kind |-> "hint", text |-> ""]

\* A faulty chatResponseMsg case, for the sensitivity of C17: the error text
\* is stored as if it were a response.
chatResponseMsgAsResponse(m, result) ==
  IF result.err # ""
  THEN [m EXCEPT !.chatLoading = FALSE, !.chatResponse = result.err]
  ELSE [m EXCEPT !.chatLoading = FALSE, !.chatResponse = result.response]

\* case chatResponseMsg; result is [response, err], err = "" meaning nil
chatResponseMsg(m, result) ==
  IF result.err # ""
  THEN [m EXCEPT !.chatLoading = FALSE, !.chatError = result.err]
  ELSE [m EXCEPT !.chatLoading = FALSE, !.chatResponse = result.response]

\* ------------------------------------------------------------------------
\* The event loop: one step is one Update followed by the render of the frame
\* ------------------------------------------------------------------------
\* the Model value handed to Update, with no command returned yet
M ==
  [projects |-> projects, filtered |-> filtered, aliased |-> aliased,
   stats |-> stats, selectedIdx |-> selectedIdx, scrollOffset |-> scrollOffset,
   viewMode |-> viewMode, currentProject |-> currentProject,
   searchText |-> searchText, chatInput |-> chatInput, chatCwd |-> chatCwd,
   width |-> width, height |-> height, motionNum |-> motionNum,
   loading |-> loading, chatResponse |-> chatResponse,
   chatLoading |-> chatLoading, chatError |-> chatError,
   buttonBounds |-> buttonBounds, cmds |-> <<>>, panic |-> FALSE]

HasCmd(r, c) == \E i \in 1..Len(r.cmds) : r.cmds[i].cmd = c

\* the program keeps the Model that Update returned, starts the returned
\* commands and renders the next frame; a panic in Update or View ends it
Install(r, chats) ==
  IF r.panic
  THEN /\ run' = "panic"
       /\ cmds' = <<>>
       /\ UNCHANGED <<projects, filtered, aliased, stats, selectedIdx,
                      scrollOffset, viewMode, currentProject, searchText,
                      chatInput, chatCwd, width, height, motionNum, loading,
                      chatResponse, chatLoading, chatError, buttonBounds,
                      pendingLoads, nLoads, nChats>>
       /\ pendingChats' = chats
  ELSE /\ projects' = r.projects
       /\ filtered' = r.filtered
       /\ aliased' = r.aliased
       /\ stats' = r.stats
       /\ selectedIdx' = r.selectedIdx
       /\ scrollOffset' = r.scrollOffset
       /\ viewMode' = r.viewMode
       /\ currentProject' = r.currentProject
       /\ searchText' = r.searchText
       /\ chatInput' = r.chatInput
       /\ chatCwd' = r.chatCwd
       /\ width' = r.width
       /\ height' = r.height
       /\ motionNum' = r.motionNum
       /\ loading' = r.loading
       /\ chatResponse' = r.chatResponse
       /\ chatLoading' = r.chatLoading
       /\ chatError' = r.chatError
       /\ buttonBounds' = r.buttonBounds
       /\ cmds' = r.cmds
       /\ pendingLoads' = IF HasCmd(r, "load") THEN pendingLoads + 1 ELSE pendingLoads
       /\ nLoads' = IF HasCmd(r, "load") THEN nLoads + 1 ELSE nLoads
       /\ pendingChats' = IF HasCmd(r, "sendChat")
                          THEN Append(chats, r.cmds[1]) ELSE chats
       /\ nChats' = IF HasCmd(r, "sendChat") THEN nChats + 1 ELSE nChats
       /\ run' = IF HasCmd(r, "quit") THEN "quit"
                 ELSE AfterView(r.width, r.loading, r.viewMode, r.scrollOffset, r.filtered)

\* keys grouped by the handler that receives them
ListKeys == {"q", "ctrl+c", "esc", "j", "down", "k", "up", "g", "G", "ctrl+d",
             "ctrl+u", "/", "C", "c", "enter", "o", "r", "R", "p", "t", "l",
             "d", "?", "ctrl+r", "0", "2", "tab"}

SearchKeys == {"q", "ctrl+c", "esc", "enter", "backspace", "B", "x", "down"}

ChatKeys == {"q", "ctrl+c", "esc", "enter", "backspace", "m"}

LongList == <<dC, dAb, dD, dE, dF, dG>>

Click(t, y) == [type |-> t, x |-> 0, y |-> y]

\* One run of the program happens in one environment: the project lists that
\* discovery can return, the projects whose probes answer, the keys the user
\* presses in each mode, the mouse events and the terminal sizes.

\* status results arriving while the user filters the list
EnvEnrich ==
  [lists |-> {<<dC, dAb>>},
   probed |-> {dAb.Name, dC.Name},
   listKeys |-> {"/"},
   searchKeys |-> {"esc", "enter", "backspace", "B"},
   chatKeys |-> {},
   clicks |-> {},
   sizes |-> {<<80, 13>>}]

\* status results arriving while the detail view is open
EnvDetail ==
  [lists |-> {<<dC, dAb>>},
   probed |-> {dAb.Name},
   listKeys |-> {"/", "enter", "esc"},
   searchKeys |-> {"enter", "B"},
   chatKeys |-> {},
   clicks |-> {},
   sizes |-> {<<80, 13>>}]

\* status results arriving around a refresh that changes the project list
EnvRefresh ==
  [lists |-> {<<dC, dAb>>, <<dAb>>},
   probed |-> {dC.Name},
   listKeys |-> {"ctrl+r"},
   searchKeys |-> {},
   chatKeys |-> {},
   clicks |-> {},
   sizes |-> {<<80, 13>>}]

\* navigation of a list longer than the viewport, with refreshes
EnvNavigate ==
  [lists |-> {<<dAb>>, LongList},
   probed |-> {},
   listKeys |-> {"j", "k", "g", "G", "ctrl+d", "ctrl+u", "0", "2", "esc", "q",
                 "ctrl+r"},
   searchKeys |-> {},
   chatKeys |-> {},
   clicks |-> {},
   sizes |-> {<<80, 14>>}]

\* mouse clicks and terminal resizes on a long list
EnvPointer ==
  [lists |-> {LongList},
   probed |-> {},
   listKeys |-> {"j", "G", "g", "?"},
   searchKeys |-> {},
   chatKeys |-> {},
   clicks |-> {Click("left", 2), Click("left", 3), Click("left", 4), Click("release", 3)},
   sizes |-> {<<80, 13>>, <<80, 14>>}]

\* searching a long list
EnvFilter ==
  [lists |-> {LongList},
   probed |-> {},
   listKeys |-> {"/", "j", "G", "enter", "esc"},
   searchKeys |-> SearchKeys,
   chatKeys |-> {},
   clicks |-> {},
   sizes |-> {<<80, 13>>}]

\* the chat box
EnvChat ==
  [lists |-> {<<dC, dAb>>},
   probed |-> {},
   listKeys |-> {"q", "ctrl+c", "esc", "down", "C", "c"},
   searchKeys |-> {},
   chatKeys |-> ChatKeys,
   clicks |-> {},
   sizes |-> {<<80, 13>>}]

\* the actions on the selected project
EnvActions ==
  [lists |-> {<<dC, dAb>>},
   probed |-> {},
   listKeys |-> {"down", "up", "?", "esc", "o", "r", "R", "p", "t", "l", "d", "tab"},
   searchKeys |-> {},
   chatKeys |-> {},
   clicks |-> {Click("left", 4), [type |-> "left", x |-> 60, y |-> 4]},
   sizes |-> {<<80, 13>>}]

\* every probe of one project answers, before and after a refresh
EnvSettle ==
  [lists |-> {<<dC>>},
   probed |-> {dC.Name},
   listKeys |-> {"ctrl+r"},
   searchKeys |-> {},
   chatKeys |-> {},
   clicks |-> {},
   sizes |-> {<<80, 13>>},
   settle |-> TRUE]

\* every probe of one project answers while the user filters the list
EnvSettleFiltered ==
  [lists |-> {<<dAb>>},
   probed |-> {dAb.Name},
   listKeys |-> {"/"},
   searchKeys |-> {"B"},
   chatKeys |-> {},
   clicks |-> {},
   sizes |-> {<<80, 13>>},
   settle |-> TRUE]

\* a refresh that shortens a scrolled list which stays longer than the viewport
EnvShrink ==
  [lists |-> {LongList \o <<dH>>, LongList},
   probed |-> {},
   listKeys |-> {"G", "k", "ctrl+r"},
   searchKeys |-> {},
   chatKeys |-> {},
   clicks |-> {},
   sizes |-> {<<80, 13>>}]

\* a second message is sent before the first one is answered
EnvChatRace ==
  [lists |-> {<<dC>>},
   probed |-> {},
   listKeys |-> {"C"},
   searchKeys |-> {},
   chatKeys |-> {"m", "enter"},
   clicks |-> {},
   sizes |-> {<<80, 13>>},
   race |-> TRUE]

Envs == {EnvEnrich, EnvDetail, EnvRefresh, EnvNavigate, EnvPointer, EnvFilter,
         EnvChat, EnvActions, EnvSettle, EnvSettleFiltered, EnvShrink,
         EnvChatRace}

\* the number of chat messages one run may send: MaxChats, and one more in
\* the environment that sends a message while another is unanswered
ChatBudget == IF "race" \in DOMAIN env THEN MaxChats + 1 ELSE MaxChats

Keys(mode) ==
  CASE mode = "SearchMode" -> env.searchKeys
    [] mode = "ChatMode" -> env.chatKeys
    [] OTHER -> env.listKeys

\* case tea.KeyMsg
KeyMsg(key) ==
  /\ run = "running"
  /\ UNCHANGED cacheVars
  /\ key \in Keys(viewMode)
  /\ \E r \in {handleKey(M, key)} :
       /\ Len(r.motionNum) <= MaxPrefixLen
       /\ Len(r.searchText) <= MaxSearchLen
       /\ Len(r.chatInput) <= MaxChatLen
       /\ HasCmd(r, "load") => nLoads < MaxLoads
       /\ HasCmd(r, "sendChat") => nChats < ChatBudget
       /\ Install(r, pendingChats)
  /\ ev' = [type |-> "key", key |-> key, mode |-> viewMode, text |-> searchText,
            chat |-> chatInput, shown |-> <<chatResponse, chatError>>]
  /\ typing' = IF key = "/" /\ viewMode = "ListView" /\ searchText = <<>> THEN TRUE
                ELSE typing /\ key \in Runes
  /\ UNCHANGED <<pendingProbes, nStatus, env>>

\* case tea.MouseMsg
MouseMsg(msg) ==
  /\ run = "running"
  /\ UNCHANGED cacheVars
  /\ \E r \in {handleMouse(M, msg)} : Install(r, pendingChats)
  /\ ev' = [type |-> "mouse", msg |-> msg, mode |-> viewMode]
  /\ UNCHANGED <<pendingProbes, nStatus, env, typing>>

ChatResults == {[response |-> "pong", err |-> ""], [response |-> "", err |-> "timeout"]}

\* case chatResponseMsg: the sends run concurrently, any of them may answer
ChatResponse(i, result) ==
  /\ run = "running"
  /\ UNCHANGED cacheVars
  /\ i \in 1..Len(pendingChats)
  /\ \E r \in {chatResponseMsg(M, result)} :
       Install(r, SubSeq(pendingChats, 1, i - 1)
                    \o SubSeq(pendingChats, i + 1, Len(pendingChats)))
  /\ ev' = [type |-> "chat", result |-> result]
  /\ UNCHANGED <<pendingProbes, nStatus, env, typing>>

\* ------------------------------------------------------------------------
\* The status probes of one project and its cache file (pkg/discover)
\* ------------------------------------------------------------------------
\* the fields of ProjectCache that the probes write
CacheFields == {"Language", "GitStatus", "FirstCommit", "LastCommit"}

\* &ProjectCache{}
EmptyCache == [Language |-> <<>>, GitStatus |-> Nil, FirstCommit |-> 0, LastCommit |-> 0]

\* LoadProjectCache: nil when the file cannot be read or UpdatedAt is older
\* than CacheTTL
LoadProjectCache(file, age) == IF age = "fresh" THEN file ELSE Nil

\* the updates function of a probe: the fields it assigns, with their values
NoUpdates == [f \in {} |-> 0]

\* updates(cache)
ApplyUpdates(cache, val) ==
  [f \in CacheFields |-> IF f \in DOMAIN val THEN val[f] ELSE cache[f]]

\* the probes that go through the cache (tea.Batch runs them concurrently)
CacheProbes == {"git", "language", "times"}

\* a probe that is not running
IdleProbe ==
  [pc |-> "idle", cache |-> EmptyCache, seen |-> EmptyCache, val |-> NoUpdates,
   last |-> 0, read |-> 0]

\* the time of the oldest commit of the repository
RepoFirst == 1

\* what mc-tokei-lang-perc reports
TokeiOutputs == {<<>>, <<"G", "o">>}

\* a probe command starts running
Call(k) ==
  /\ probe[k].pc = "idle"
  /\ nCalls < MaxCalls
  /\ nCalls' = nCalls + 1
  /\ probe' = [probe EXCEPT ![k] = [IdleProbe EXCEPT !.pc = "begin"]]
  /\ UNCHANGED <<cacheFile, cacheAge, repoLast, written, aged>>
  /\ UNCHANGED uiVars

\* GetGitStatus up to its cache update: the status is always fetched
GetGitStatus(status) ==
  /\ probe["git"].pc = "begin"
  /\ probe' = [probe EXCEPT !["git"] =
                 IF status = Nil THEN [@ EXCEPT !.pc = "done"]
                 ELSE [@ EXCEPT !.pc = "load",
                                !.val = [f \in {"GitStatus"} |-> status]]]
  /\ UNCHANGED <<cacheFile, cacheAge, repoLast, written, aged, nCalls>>
  /\ UNCHANGED uiVars

\* GetPrimaryLanguage up to its cache update: a cached language is returned
\* without running the script
GetPrimaryLanguage(output) ==
  /\ probe["language"].pc = "begin"
  /\ LET c == LoadProjectCache(cacheFile, cacheAge)
     IN probe' = [probe EXCEPT !["language"] =
                    IF c # Nil /\ c.Language # <<>> THEN [@ EXCEPT !.pc = "done"]
                    ELSE IF output = <<>> THEN [@ EXCEPT !.pc = "done"]
                    ELSE [@ EXCEPT !.pc = "load",
                                   !.val = [f \in {"Language"} |-> output]]]
  /\ UNCHANGED <<cacheFile, cacheAge, repoLast, written, aged, nCalls>>
  /\ UNCHANGED uiVars

\* GetGitTimes up to its cache update: with a cached first commit both times
\* are returned from the cache, otherwise git is asked
GetGitTimes ==
  /\ probe["times"].pc = "begin"
  /\ LET c == LoadProjectCache(cacheFile, cacheAge)
         cachedFirst == IF c = Nil THEN 0 ELSE c.FirstCommit
         cachedLast == IF c = Nil THEN 0 ELSE c.LastCommit
         firstCommit == IF cachedFirst > 0 THEN cachedFirst ELSE RepoFirst
     IN probe' = [probe EXCEPT !["times"] =
                    IF c # Nil /\ cachedFirst > 0
                    THEN [@ EXCEPT !.pc = "done", !.last = cachedLast]
                    ELSE [@ EXCEPT !.pc = "load", !.last = repoLast,
                                   !.read = repoLast,
                                   !.val = [f \in {"FirstCommit", "LastCommit"} |->
                                              IF f = "FirstCommit" THEN firstCommit
                                              ELSE repoLast]]]
  /\ UNCHANGED <<cacheFile, cacheAge, repoLast, written, aged, nCalls>>
  /\ UNCHANGED uiVars

\* UpdateProjectCache, first half: LoadProjectCache, or a new ProjectCache
UpdateProjectCacheLoad(k) ==
  /\ probe[k].pc = "load"
  /\ LET c == LoadProjectCache(cacheFile, cacheAge)
     IN probe' = [probe EXCEPT ![k] =
                    [@ EXCEPT !.pc = "save",
                              !.cache = IF c = Nil THEN EmptyCache ELSE c,
                              !.seen = cacheFile]]
  /\ UNCHANGED <<cacheFile, cacheAge, repoLast, written, aged, nCalls>>
  /\ UNCHANGED uiVars

\* UpdateProjectCache, second half: updates(cache) and SaveProjectCache,
\* which stamps UpdatedAt and overwrites the file
UpdateProjectCacheSave(k) ==
  /\ probe[k].pc = "save"
  /\ cacheFile' = ApplyUpdates(probe[k].cache, probe[k].val)
  /\ cacheAge' = "fresh"
  /\ written' = ApplyUpdates(written, probe[k].val)
  /\ probe' = [probe EXCEPT ![k] = [@ EXCEPT !.pc = "done"]]
  /\ UNCHANGED <<repoLast, aged, nCalls>>
  /\ UNCHANGED uiVars

\* the probe's message is delivered
Return(k) ==
  /\ probe[k].pc = "done"
  /\ probe' = [probe EXCEPT ![k] = IdleProbe]
  /\ UNCHANGED <<cacheFile, cacheAge, repoLast, written, aged, nCalls>>
  /\ UNCHANGED uiVars

\* more than CacheTTL passes without a save
Expire ==
  /\ cacheAge = "fresh"
  /\ cacheAge' = "expired"
  /\ aged' = TRUE
  /\ UNCHANGED <<cacheFile, repoLast, probe, written, nCalls>>
  /\ UNCHANGED uiVars

\* a commit is made in the repository
Commit ==
  /\ repoLast < RepoFirst + 1 + MaxCommits
  /\ repoLast' = repoLast + 1
  /\ UNCHANGED <<cacheFile, cacheAge, probe, written, aged, nCalls>>
  /\ UNCHANGED uiVars

\* no cache file yet, no probe running
CacheIdle ==
  /\ cacheFile = EmptyCache
  /\ cacheAge = "absent"
  /\ repoLast = RepoFirst + 1
  /\ probe = [k \in CacheProbes |-> IdleProbe]
  /\ written = EmptyCache
  /\ aged = FALSE
  /\ nCalls = 0

\* ------------------------------------------------------------------------
\* Initial state: NewModel, and Init has dispatched loadProjectsCmd
\* ------------------------------------------------------------------------
NoProbes == [k \in AllNames \X Kinds |-> 0]

Init ==
  /\ projects = <<>>
  /\ filtered = <<>>
  /\ aliased = TRUE
  /\ stats = ZeroStats
  /\ selectedIdx = 0
  /\ scrollOffset = 0
  /\ viewMode = "ListView"
  /\ currentProject = NoProject
  /\ searchText = <<>>
  /\ chatInput = <<>>
  /\ chatCwd = ProjectsRoot
  /\ width = 0
  /\ height = 0
  /\ motionNum = <<>>
  /\ buttonBounds = <<>>
  /\ loading = TRUE
  /\ chatResponse = ""
  /\ chatLoading = FALSE
  /\ chatError = ""
  /\ run = "running"
  /\ pendingLoads = 1
  /\ pendingProbes = NoProbes
  /\ pendingChats = <<>>
  /\ cmds = <<[cmd |-> "load"]>>
  /\ ev = [type |-> "init"]
  /\ nLoads = 1
  /\ nStatus = 0
  /\ nChats = 0
  /\ env \in Envs
  /\ typing = FALSE
  /\ CacheIdle

DiscoveryResults == {[err |-> TRUE, discovered |-> <<>>]}
                      \cup {[err |-> FALSE, discovered |-> l] : l \in env.lists}

Next ==
  \/ \E result \in DiscoveryResults : ProjectsLoaded(result)
  \/ \E kind \in Kinds : \E name \in env.probed : \E value \in ProbeResults(kind) :
       StatusMsg(kind, name, value)
  \/ \E size \in env.sizes : WindowSize(size)
  \/ \E key \in ListKeys \cup SearchKeys \cup ChatKeys : KeyMsg(key)
  \/ \E msg \in env.clicks : MouseMsg(msg)
  \/ \E i \in 1..ChatBudget : \E result \in ChatResults : ChatResponse(i, result)

Spec == Init /\ [][Next]_vars

\* The probes of one project run against its cache file while the dashboard
\* waits for their results.
CacheInit == Init /\ env = EnvSettle

CacheNext ==
  \/ \E k \in CacheProbes : Call(k)
  \/ \E status \in GitResults : GetGitStatus(status)
  \/ \E output \in TokeiOutputs : GetPrimaryLanguage(output)
  \/ GetGitTimes
  \/ \E k \in CacheProbes : UpdateProjectCacheLoad(k)
  \/ \E k \in CacheProbes : UpdateProjectCacheSave(k)
  \/ \E k \in CacheProbes : Return(k)
  \/ Expire
  \/ Commit

CacheSpec == CacheInit /\ [][CacheNext]_vars

\* ------------------------------------------------------------------------
\* Properties
\* ------------------------------------------------------------------------
\* the spec's projection: the projects, in registry order, whose lower-cased
\* name contains the lower-cased filter text
Projection(ps, text) ==
  SelectSeq(ps, LAMBDA p : Contains(ToLower(p.Name), ToLower(text)))

Absent(ps, name) == \A i \in 1..Len(ps) : ps[i].Name # name

\* this step is a status message (only StatusMsg counts status results)
StatusStep == ev'.type = "status" /\ nStatus' = nStatus + 1

ProjectFields ==
  {"Name", "Path", "Type", "Language", "FirstCommit", "LastCommit", "Staged",
   "Untracked", "Modified", "Issues", "PRs", "VercelState"}

GroupFields(kind) ==
  CASE kind = "git" -> {"Staged", "Untracked", "Modified"}
    [] kind = "gh" -> {"Issues", "PRs"}
    [] kind = "vercel" -> {"VercelState"}
    [] kind = "times" -> {"FirstCommit", "LastCommit"}
    [] kind = "language" -> {"Language", "Type"}

SameOutside(p, q, fields) == \A f \in ProjectFields \ fields : p[f] = q[f]

NavKeys == {"j", "down", "k", "up", "g", "G", "ctrl+d", "ctrl+u"}

\* this step is key k handled in list mode
ListKeyStep(k) == ev'.type = "key" /\ ev'.key = k /\ viewMode = "ListView"

Clamp(x, n) == maxInt(0, min(x, n - 1))

\* the number the motion prefix spells, 1 when there is none
Spelled(mn) == IF mn = <<>> THEN 1 ELSE ParseDecimal(mn)

\* C1: in every reachable state the filtered list is the projection of the
\* project list under the search text (the whole list for an empty text).
C1_FilteredIsProjection == filtered = Projection(projects, searchText)

\* C2: in every reachable state the stats are the fold of the project list.
C2_StatsIsFold == stats = updateStats(projects)

\* C3: a status message whose name matches no project leaves the registry
\* unchanged, also when it is the result of a probe started before a refresh.
C3_UnknownNameIsNoOp ==
  [][StatusStep /\ Absent(projects, ev'.name) => projects' = projects]_vars

\* C3 witness: after a refresh delivered a new non-empty list, a status
\* message for a name that is not in it has been processed.
C3_Witness ==
  /\ ev.type = "status"
  /\ Absent(projects, ev.name)
  /\ projects # <<>>
  /\ nLoads > 1
  /\ pendingLoads = 0

\* C4: a status message for a known name changes only the fields of its
\* group on that one project; a nil git or GitHub status changes nothing.
C4_OnlyOwnFieldGroup ==
  [][StatusStep /\ ~Absent(projects, ev'.name) =>
       /\ Len(projects') = Len(projects)
       /\ \E i \in 1..Len(projects) :
            /\ projects[i].Name = ev'.name
            /\ SameOutside(projects[i], projects'[i], GroupFields(ev'.kind))
            /\ \A j \in 1..Len(projects) : j # i => projects'[j] = projects[j]
       /\ (ev'.kind \in {"git", "gh"} /\ ev'.value = Nil => projects' = projects)]_vars

\* C4 witness: a git status has been merged into a project that already
\* carried GitHub counts, next to another project.
C4_Witness ==
  /\ ev.type = "status"
  /\ ev.kind = "git"
  /\ ev.value # Nil
  /\ Len(projects) > 1
  /\ \E i \in 1..Len(projects) :
       /\ projects[i].Name = ev.name
       /\ projects[i].Untracked = ev.value.Untracked
       /\ projects[i].Issues > 0

\* C5: after a status message every entry of the filtered list carries the
\* field values of the registry project of the same name.
C5_FilteredCarriesStatus ==
  ev.type = "status" =>
    \A i \in 1..Len(filtered) : \A j \in 1..Len(projects) :
      projects[j].Name = filtered[i].Name => filtered[i] = projects[j]

\* C6: with a non-empty projection the selection and the scroll offset index
\* the filtered list in range, and no handler or render panics.
C6_SelectionInRange ==
  /\ run # "panic"
  /\ filtered # <<>> =>
       /\ 0 <= selectedIdx /\ selectedIdx < Len(filtered)
       /\ 0 <= scrollOffset /\ scrollOffset <= Len(filtered) - 1

\* C7: after a navigation key on a non-empty projection the selection is in
\* range and inside the viewport.
C7_NavigationKeepsSelectionVisible ==
  [][(\E k \in NavKeys : ListKeyStep(k)) /\ filtered # <<>> =>
       /\ 0 <= selectedIdx' /\ selectedIdx' <= Len(filtered') - 1
       /\ scrollOffset' <= selectedIdx'
       /\ selectedIdx' < scrollOffset' + getListHeight(height')]_vars

\* C8: on an empty projection a navigation key leaves the selection and the
\* scroll offset unchanged.
C8_EmptyNavigationIsNoOp ==
  [][(\E k \in NavKeys : ListKeyStep(k)) /\ filtered = <<>> =>
       selectedIdx' = selectedIdx /\ scrollOffset' = scrollOffset]_vars

\* C9: in list mode a digit extends the prefix without moving the selection;
\* j (k) moves down (up) by the number the prefix spells, 1 without a prefix,
\* clamped to the projection bounds, and empties the prefix.
C9_CountedMotion ==
  [][ev'.type = "key" /\ viewMode = "ListView" /\ run' = "running" =>
       /\ ExtendsPrefix(ev'.key, motionNum) =>
            selectedIdx' = selectedIdx /\ motionNum' = Append(motionNum, ev'.key)
       /\ ev'.key \in {"j", "down"} =>
            /\ selectedIdx' = Clamp(selectedIdx + Spelled(motionNum), Len(filtered))
            /\ motionNum' = <<>>
       /\ ev'.key \in {"k", "up"} =>
            /\ selectedIdx' = Clamp(selectedIdx - Spelled(motionNum), Len(filtered))
            /\ motionNum' = <<>>]_vars

\* C10: a key handled while a motion prefix is pending, other than a digit
\* that extends it, leaves the prefix empty.
C10_KeyClearsPrefix ==
  [][/\ ev'.type = "key"
     /\ run' = "running"
     /\ motionNum # <<>>
     /\ ~(ev'.key \in Digits /\ motionNum' = Append(motionNum, ev'.key))
     => motionNum' = <<>>]_vars

\* this step handles key k
KeyStep(k) == ev'.type = "key" /\ ev'.key = k

\* C11: Esc in Search, Chat, Detail or Help mode returns to list mode, empties
\* the search text, the chat input, the chat response and the chat error, and
\* makes the projection the full project list.
C11_EscResets ==
  [][KeyStep("esc") /\ viewMode # "ListView" =>
       /\ viewMode' = "ListView"
       /\ searchText' = <<>>
       /\ chatInput' = <<>>
       /\ chatResponse' = ""
       /\ chatError' = ""
       /\ filtered' = projects']_vars

\* C11 witness: Esc was pressed in Search mode while a typed filter hid a
\* project, and the list shows every project again.
C11_Witness ==
  /\ ev.type = "key" /\ ev.key = "esc" /\ ev.mode = "SearchMode"
  /\ ev.text # <<>>
  /\ Len(projects) > 1
  /\ filtered = projects
  /\ viewMode = "ListView"

\* C12: a search round trip ("/" pressed in list mode with an empty search
\* text, then character keys, then Esc) ends in list mode with an empty
\* search text and the full project list as the projection.
C12_SearchRoundTrip ==
  [][typing /\ KeyStep("esc") =>
       /\ viewMode' = "ListView"
       /\ searchText' = <<>>
       /\ filtered' = projects']_vars

QuitKeys == {"q", "ctrl+c"}

\* C13: the program stops only by a quit key pressed in list mode; in the
\* other modes a quit key returns to list mode, and no other event stops it.
C13_OnlyQuitTerminates ==
  [][/\ run = "running" /\ run' # "running" =>
          /\ run' = "quit"
          /\ \E k \in QuitKeys : KeyStep(k)
          /\ viewMode = "ListView"
     /\ (\E k \in QuitKeys : KeyStep(k)) /\ viewMode # "ListView" =>
          viewMode' = "ListView" /\ run' = "running"]_vars

\* C14: in Search mode a character key appends its character to the search
\* text (unless the character limit is reached) and the projection is
\* recomputed for the new text in the same step.
C14_SearchKeystroke ==
  [][viewMode = "SearchMode" /\ (\E k \in Runes : KeyStep(k)) =>
       /\ searchText' = IF Len(searchText) < SearchCharLimit
                         THEN Append(searchText, ev'.key) ELSE searchText
       /\ filtered' = Projection(projects', searchText')]_vars

\* the fields of Model
ModelState ==
  <<projects, filtered, stats, selectedIdx, scrollOffset, viewMode,
    currentProject, searchText, chatInput, chatCwd, width, height, motionNum,
    loading, chatResponse, chatLoading, chatError, buttonBounds>>

\* C15: in Chat mode Enter on a non-empty input empties the input, sets
\* chatLoading, clears the response and the error and dispatches exactly one
\* send carrying the typed text and the chat context; Enter on an empty input
\* changes no state and dispatches nothing.
C15_ChatEnter ==
  [][viewMode = "ChatMode" /\ KeyStep("enter") =>
       IF chatInput # <<>>
       THEN /\ chatInput' = <<>>
            /\ chatLoading' = TRUE
            /\ chatResponse' = ""
            /\ chatError' = ""
            /\ cmds' = <<[cmd |-> "sendChat", message |-> chatInput, cwd |-> chatCwd]>>
            /\ pendingChats' = Append(pendingChats, [cmd |-> "sendChat",
                                       message |-> chatInput, cwd |-> chatCwd])
       ELSE /\ ModelState' = ModelState
            /\ cmds' = <<>>
            /\ pendingChats' = pendingChats]_vars

\* C15 witness: Enter was pressed in Chat mode on a typed message and the
\* send is in flight.
C15_Witness ==
  /\ ev.type = "key" /\ ev.key = "enter" /\ ev.mode = "ChatMode"
  /\ ev.chat # <<>>
  /\ chatInput = <<>>
  /\ chatLoading
  /\ Len(pendingChats) = 1
  /\ pendingChats[1].message = ev.chat

\* C16: in list mode C makes the projects root the chat context and c, on a
\* non-empty projection, the expanded path of the project at selectedIdx; both
\* enter Chat mode, the context stays as it is while Chat mode lasts, and
\* every message sent carries it.
C16_ChatContext ==
  [][/\ viewMode = "ListView" /\ KeyStep("C") =>
          chatCwd' = ProjectsRoot /\ viewMode' = "ChatMode"
     /\ viewMode = "ListView" /\ KeyStep("c") /\ filtered # <<>> =>
          /\ viewMode' = "ChatMode"
          /\ \E i \in 1..Len(filtered) :
               i = selectedIdx + 1 /\ chatCwd' = expandPath(filtered[i].Path)
     /\ viewMode = "ChatMode" /\ viewMode' = "ChatMode" => chatCwd' = chatCwd
     /\ viewMode = "ChatMode" /\ HasCmd([cmds |-> cmds'], "sendChat") =>
          cmds'[1].cwd = chatCwd]_vars

\* the chat box of the current model
ChatBox == renderChatBox(chatLoading, chatError, chatResponse, viewMode, chatInput)

\* this step sends a chat message
SendStep == viewMode = "ChatMode" /\ KeyStep("enter") /\ chatInput # <<>>

\* this step is a chat result
ChatResultStep == ev'.type = "chat" /\ pendingChats' # pendingChats

\* C17 as stated: a chat result with an error makes the chat box show the
\* error text, and the box keeps showing it until the next message is sent.
C17_ErrorShownUntilSend ==
  [][/\ ChatResultStep /\ ev'.result.err # "" =>
          ChatBox' = [kind |-> "error", text |-> ev'.result.err]
     /\ ChatBox.kind = "error" /\ ~SendStep /\ ~ChatResultStep =>
          ChatBox' = ChatBox]_vars

\* C17 amended: a chat result with an error makes the chat box show the
\* error text, and the box keeps showing it until the next message is sent
\* or Esc is pressed in Search, Chat, Detail or Help mode, each of which
\* clears it.
C17_ErrorShownUntilSendOrEsc ==
  [][/\ ChatResultStep /\ ev'.result.err # "" =>
          ChatBox' = [kind |-> "error", text |-> ev'.result.err]
     /\ ChatBox.kind = "error" /\ ~ChatResultStep =>
          IF SendStep \/ (KeyStep("esc") /\ viewMode # "ListView")
          THEN chatError' = ""
          ELSE ChatBox' = ChatBox]_vars

\* C17 witness: the error of a chat result is still in the chat box after a
\* later key press that was neither a send nor Esc.
C17_Witness ==
  /\ ev.type = "key" /\ ev.key \notin {"esc", "enter"}
  /\ ev.shown[2] # ""
  /\ ChatBox = [kind |-> "error", text |-> ev.shown[2]]

\* this step handles a mouse message
MouseStep == ev'.type = "mouse"

\* C18: a mouse message received in Search, Chat, Detail or Help mode changes
\* no field of the model and dispatches nothing.
C18_MouseOnlyInListMode ==
  [][MouseStep /\ viewMode # "ListView" =>
       ModelState' = ModelState /\ cmds' = <<>>]_vars

\* the click of this step hits no action button region
OffButtons ==
  \A i \in 1..Len(buttonBounds) :
    ~(/\ buttonBounds[i].Row = ev'.msg.y - ListStartY
      /\ ev'.msg.x >= buttonBounds[i].StartX
      /\ ev'.msg.x < buttonBounds[i].EndX)

\* the click of this step is a left click on a row of the list viewport
InViewport ==
  /\ ev'.msg.type = "left"
  /\ ev'.msg.y >= ListStartY
  /\ ev'.msg.y < ListStartY + getListHeight(height)

\* C19: in list mode a left click on viewport row Y - listTop, off the action
\* buttons, selects scrollOffset + (Y - listTop) when that index is below
\* len(filtered) and leaves the selection alone when it is not; a click
\* outside the viewport rows, or one that is not a left click, changes nothing.
C19_ClickSelectsRow ==
  [][MouseStep /\ viewMode = "ListView" /\ OffButtons =>
       IF InViewport
       THEN selectedIdx' =
              IF scrollOffset + (ev'.msg.y - ListStartY) < Len(filtered)
              THEN scrollOffset + (ev'.msg.y - ListStartY)
              ELSE selectedIdx
       ELSE ModelState' = ModelState /\ cmds' = <<>>]_vars

\* C19 witness: a left click on the second viewport row of a scrolled list
\* selected the project drawn there.
C19_Witness ==
  /\ ev.type = "mouse" /\ ev.mode = "ListView"
  /\ ev.msg.type = "left" /\ ev.msg.y = ListStartY + 1
  /\ scrollOffset > 0
  /\ selectedIdx = scrollOffset + 1
  /\ selectedIdx < Len(filtered)

\* the button regions on the frame that is on the screen
FrameButtons ==
  DrawnButtons(width, height, loading, viewMode, scrollOffset, Len(filtered))

\* the click of this step falls into drawn button region i
OnButton(i) ==
  /\ ev'.msg.type = "left"
  /\ FrameButtons[i].Row = ev'.msg.y - ListStartY
  /\ ev'.msg.x >= FrameButtons[i].StartX
  /\ ev'.msg.x < FrameButtons[i].EndX

\* C20: a left click inside the region that the frame on the screen draws for
\* an action button of viewport row R dispatches that button's action for the
\* project at index scrollOffset + R and leaves selectedIdx unchanged.
C20_ButtonClickDispatches ==
  [][MouseStep =>
       \A i \in 1..Len(FrameButtons) :
         OnButton(i) =>
           /\ cmds' = <<[cmd |-> "action", action |-> FrameButtons[i].Action,
                         project |-> filtered[scrollOffset + FrameButtons[i].Row + 1]]>>
           /\ selectedIdx' = selectedIdx]_vars

\* ------------------------------------------------------------------------
\* Loading and refreshing
\* ------------------------------------------------------------------------
\* the list a discovery result delivers: nothing when discovery failed
Delivered(result) == IF result.err THEN <<>> ELSE result.discovered

Unknown(p) ==
  /\ p.Staged = 0 /\ p.Untracked = 0 /\ p.Modified = 0
  /\ p.Issues = 0 /\ p.PRs = 0
  /\ p.VercelState = "" /\ p.Language = <<>>
  /\ p.FirstCommit = ZeroTime /\ p.LastCommit = ZeroTime

\* C21: right after a projectsLoaded event the registry is the delivered list
\* in the delivered order, every status field of every project is at its
\* unknown value, and loading is false.
C21_LoadReplacesRegistry ==
  ev.type = "projectsLoaded" =>
    /\ ~loading
    /\ Len(projects) = Len(Delivered(ev.result))
    /\ \A i \in 1..Len(projects) :
         /\ projects[i].Name = Delivered(ev.result)[i].Name
         /\ projects[i].Path = Delivered(ev.result)[i].Path
         /\ Unknown(projects[i])

\* a refresh has replaced a registry that held a status result
C21_Witness ==
  /\ ev.type = "projectsLoaded"
  /\ nLoads > 1
  /\ nStatus > 0
  /\ stats.TotalUntracked > 0
  /\ projects # <<>>

\* C22: when discovery fails, the projectsLoaded event that follows leaves
\* loading false and the registry empty, and the program keeps running.
C22_FailedDiscoveryRecovers ==
  (ev.type = "projectsLoaded" /\ ev.result.err) =>
    /\ ~loading
    /\ projects = <<>>
    /\ run = "running"

\* the same, for the runs in which the scroll offset has stayed in range
C22_Guarded ==
  (ev.type = "projectsLoaded" /\ ev.result.err /\ scrollOffset >= 0) =>
    /\ ~loading
    /\ projects = <<>>
    /\ run = "running"

\* the probes of one kind that the last Update started for a project
ProbesStarted(p, kind) ==
  {i \in 1..Len(cmds) : /\ cmds[i].cmd = "probe"
                        /\ cmds[i].kind = kind
                        /\ cmds[i].name = p.Name
                        /\ cmds[i].path = p.Path}

\* C23: a projectsLoaded event starts, for every project of the delivered
\* list, exactly one probe of each of the five kinds with the project's name
\* and path, and no probe for any other name.
C23_FiveProbesPerProject ==
  ev.type = "projectsLoaded" =>
    /\ \A i \in 1..Len(projects) : \A kind \in Kinds :
         Cardinality(ProbesStarted(projects[i], kind)) = 1
    /\ \A j \in 1..Len(cmds) :
         \E i \in 1..Len(projects) : cmds[j].name = projects[i].Name

\* the same, leaving the Vercel probe of the projects that are not of Vercel
\* type aside
C23_Guarded ==
  ev.type = "projectsLoaded" =>
    /\ \A i \in 1..Len(projects) : \A kind \in Kinds :
         (kind = "vercel" => projects[i].Type = "vercel") =>
           Cardinality(ProbesStarted(projects[i], kind)) = 1
    /\ \A j \in 1..Len(cmds) :
         \E i \in 1..Len(projects) : cmds[j].name = projects[i].Name

\* project p holds the values that a result of the given kind carries
Carries(p, kind, value) ==
  CASE kind = "git" -> /\ p.Staged = value.Staged
                       /\ p.Untracked = value.Untracked
                       /\ p.Modified = value.Modified
    [] kind = "gh" -> p.Issues = value.Issues /\ p.PRs = value.PRs
    [] kind = "vercel" -> p.VercelState = value
    [] kind = "times" -> /\ p.FirstCommit = value.firstCommit
                         /\ p.LastCommit = value.lastCommit
    [] kind = "language" -> p.Language = value.language

\* a failed git or GitHub probe delivers nil, a result without values
HasValues(kind, value) == kind \in {"git", "gh"} => value # Nil

\* C24: right after a status result with values for a known project, the
\* project's fields of that group are the values of that result, whatever an
\* earlier result of the group had stored and whichever probe, started before
\* or after a refresh, produced it: the result processed last wins.
C24_LastArrivedWins ==
  (ev.type = "status" /\ ev.known /\ HasValues(ev.kind, ev.value)) =>
    \E i \in 1..Len(projects) :
      /\ projects[i].Name = ev.name
      /\ Carries(projects[i], ev.kind, ev.value)

\* C24 witness: after a refresh two probes of one group were in flight for a
\* project, one started before the refresh and one after it; both results were
\* processed after the refresh, the second one overwrote a different value.
C24_Witness ==
  /\ ev.type = "status"
  /\ ev.known
  /\ ev.kind = "language"
  /\ nLoads > 1
  /\ pendingLoads = 0
  /\ pendingProbes[<<ev.name, ev.kind>>] = 0
  /\ ~Carries(ev.prev, ev.kind, ev.value)
  /\ ev.prev.Language # <<>>

\* ------------------------------------------------------------------------
\* The detail view
\* ------------------------------------------------------------------------
\* the fields renderDetailView prints
DetailFields ==
  {"Name", "Path", "Type", "VercelState", "Staged", "Untracked", "Modified",
   "Issues", "PRs"}

\* C25: in Detail mode the values the detail view shows for the captured
\* project are the registry values of the project of that name, with or
\* without a search filter.
C25_DetailShowsRegistry ==
  (viewMode = "DetailView" /\ currentProject # NoProject) =>
    \A i \in 1..Len(projects) :
      projects[i].Name = currentProject.val.Name =>
        \A f \in DetailFields : currentProject.val[f] = projects[i][f]

\* the same for a project captured while no filter was active and no refresh
\* has replaced the registry since
C25_Guarded ==
  (viewMode = "DetailView" /\ currentProject # NoProject /\ currentProject.live > 0) =>
    \A i \in 1..Len(projects) :
      projects[i].Name = currentProject.val.Name =>
        \A f \in DetailFields : currentProject.val[f] = projects[i][f]

\* ------------------------------------------------------------------------
\* Status results and the view state
\* ------------------------------------------------------------------------
\* C26: a status message (git status, GitHub status, Vercel state, git times,
\* language) leaves the selection, the scroll offset, the mode, the motion
\* prefix, the search text, the chat input, the chat context and the chat
\* loading flag, response and error unchanged.
C26_StatusKeepsViewState ==
  [][StatusStep =>
       UNCHANGED <<selectedIdx, scrollOffset, viewMode, motionNum, searchText,
                   chatInput, chatCwd, chatLoading, chatResponse, chatError>>]_vars

\* a status message has been processed while the user was typing a filter
C26_Witness ==
  /\ ev.type = "status"
  /\ ev.known
  /\ viewMode = "SearchMode"
  /\ searchText # <<>>

\* this step merges a git status with counts into a known project
GitCountsStep ==
  /\ StatusStep
  /\ ev'.kind = "git"
  /\ ev'.known
  /\ ev'.value # Nil

\* the totals move by the difference between the result and the project's
\* previous counts, the other aggregates stay
GitDelta ==
  /\ stats'.TotalStaged - stats.TotalStaged = ev'.value.Staged - ev'.prev.Staged
  /\ stats'.TotalUntracked - stats.TotalUntracked
       = ev'.value.Untracked - ev'.prev.Untracked
  /\ stats'.TotalModified - stats.TotalModified
       = ev'.value.Modified - ev'.prev.Modified
  /\ stats'.TotalIssues = stats.TotalIssues
  /\ stats'.TotalPRs = stats.TotalPRs
  /\ stats'.VercelReady = stats.VercelReady
  /\ stats'.VercelBuilding = stats.VercelBuilding
  /\ stats'.VercelQueued = stats.VercelQueued
  /\ stats'.VercelFailed = stats.VercelFailed

\* C27: a git status with counts v for an existing project changes
\* TotalStaged, TotalUntracked and TotalModified by v's count minus the
\* project's previous count, and leaves TotalIssues, TotalPRs and the Vercel
\* counts as they were just before the event.
C27_GitStatusDelta == [][GitCountsStep => GitDelta]_vars

\* the same when the totals were the fold of the registry before the event
C27_Guarded ==
  [][GitCountsStep /\ stats = updateStats(projects) => GitDelta]_vars

\* ------------------------------------------------------------------------
\* The scrollbar
\* ------------------------------------------------------------------------
\* the frame on screen shows the project list
ListFrame ==
  /\ run = "running"
  /\ width # 0
  /\ ~loading
  /\ viewMode \notin {"HelpMode", "DetailView"}

\* the scrollbar renderProjectList puts on that frame
Scrollbar == RenderScrollbar(scrollOffset, Len(filtered), getListHeight(height))

\* C28: when the filtered list is longer than the viewport the thumb has
\* height max(1, h*h / n) and its top row is
\* selectedIdx * (h - thumbHeight) / max(1, n - h); when the list fits there
\* is no thumb.
C28_ThumbFollowsSelection ==
  ListFrame =>
    LET h == getListHeight(height)
        n == Len(filtered)
    IN IF n > h
       THEN /\ Scrollbar.thumb
            /\ Scrollbar.thumbSize = maxInt(1, (h * h) \div n)
            /\ Scrollbar.thumbPos
                 = (selectedIdx * (h - Scrollbar.thumbSize)) \div maxInt(1, n - h)
       ELSE ~Scrollbar.thumb

\* the same with the scroll offset in the place of the selection
C28_ThumbFollowsScroll ==
  ListFrame =>
    LET h == getListHeight(height)
        n == Len(filtered)
    IN IF n > h
       THEN /\ Scrollbar.thumb
            /\ Scrollbar.thumbSize = maxInt(1, (h * h) \div n)
            /\ Scrollbar.thumbPos
                 = (scrollOffset * (h - Scrollbar.thumbSize)) \div maxInt(1, n - h)
       ELSE ~Scrollbar.thumb

\* ------------------------------------------------------------------------
\* Actions on the selected project
\* ------------------------------------------------------------------------
ActionKeys == {"o", "r", "R", "p", "t", "l", "d"}

\* the external command an action key stands for, on project p
KeyCommand(k, p) ==
  CASE k = "o" -> [cmd |-> "editor", path |-> p.Path, file |-> ""]
    [] k = "r" -> [cmd |-> "editor", path |-> p.Path, file |-> "README.md"]
    [] k = "R" -> [cmd |-> "editor", path |-> p.Path, file |-> "ROADMAP.md"]
    [] k = "p" -> [cmd |-> "editor", path |-> p.Path, file |-> "PLAN.md"]
    [] k = "t" -> [cmd |-> "editor", path |-> p.Path, file |-> "TODO.md"]
    [] k = "l" -> [cmd |-> "lazygit", path |-> p.Path]
    [] k = "d" -> [cmd |-> "production", name |-> p.Name]

\* the fields of Model other than the motion prefix
ModelButPrefix ==
  <<projects, filtered, stats, selectedIdx, scrollOffset, viewMode,
    currentProject, searchText, chatInput, chatCwd, width, height, loading,
    chatResponse, chatLoading, chatError, buttonBounds>>

\* an action key changes nothing but the motion prefix, which it empties
OnlyPrefixEmptied ==
  /\ ModelButPrefix' = ModelButPrefix
  /\ motionNum' = <<>>
  /\ run' = "running"

\* C29: in list mode with a non-empty filtered list each action key starts
\* exactly one external command for the project at selectedIdx (d only on a
\* Vercel project) and changes nothing but the motion prefix, which it
\* empties; on an empty list, or for d on another type, it starts nothing.
C29_ActionKeys ==
  [][\A k \in ActionKeys :
       ListKeyStep(k) =>
         /\ OnlyPrefixEmptied
         /\ IF filtered = <<>> THEN cmds' = <<>>
            ELSE /\ selectedIdx + 1 \in DOMAIN filtered
                 /\ cmds' = IF k = "d" /\ filtered[selectedIdx + 1].Type # "vercel"
                            THEN <<>>
                            ELSE <<KeyCommand(k, filtered[selectedIdx + 1])>>]_vars

\* the same for the steps that start with the selection inside the list
C29_Guarded ==
  [][\A k \in ActionKeys :
       ListKeyStep(k) /\ (filtered # <<>> => selectedIdx + 1 \in DOMAIN filtered) =>
         /\ OnlyPrefixEmptied
         /\ IF filtered = <<>> THEN cmds' = <<>>
            ELSE cmds' = IF k = "d" /\ filtered[selectedIdx + 1].Type # "vercel"
                         THEN <<>>
                         ELSE <<KeyCommand(k, filtered[selectedIdx + 1])>>]_vars

\* The process a command starts: the program, its arguments (paths), the
\* working directory it sets (<<>> when it sets none) and how it is started.

\* openInEditorCmd: nvim, run through tea.ExecProcess
openInEditorCmd(projectPath, file) ==
  IF file # ""
  THEN [prog |-> <<"nvim">>, args |-> <<expandPath(projectPath) \o <<file>>>>,
        dir |-> <<>>, via |-> "ExecProcess"]
  ELSE [prog |-> <<"nvim">>, args |-> << <<".">> >>,
        dir |-> expandPath(projectPath), via |-> "ExecProcess"]

\* runScriptCmd: the script is started and not waited for
runScriptCmd(script, args) ==
  [prog |-> script, args |-> args, dir |-> <<>>, via |-> "Start"]

\* filepath.Join(home, "Projects", "mission-control", "bin")
BinDir == HomeDir \o <<"Projects", "mission-control", "bin">>

\* Model.executeAction: the command a click on an action button starts
executeAction(action, p) ==
  LET expandedPath == expandPath(p.Path)
  IN CASE action = "push" -> runScriptCmd(BinDir \o <<"mc-push">>, <<expandedPath>>)
       [] action = "merge" -> runScriptCmd(BinDir \o <<"mc-merge">>, <<expandedPath>>)
       [] action = "run" -> runScriptCmd(BinDir \o <<"mc-run">>, <<expandedPath>>)
       [] action = "deploy" -> runScriptCmd(BinDir \o <<"mc-deploy">>, <<expandedPath>>)
       [] action = "readme" ->
            runScriptCmd(BinDir \o <<"mc-edit">>, <<expandedPath, <<"README.md">> >>)
       [] action = "roadmap" ->
            runScriptCmd(BinDir \o <<"mc-edit">>, <<expandedPath, <<"ROADMAP.md">> >>)
       [] action = "plan" ->
            runScriptCmd(BinDir \o <<"mc-edit">>, <<expandedPath, <<"PLAN.md">> >>)
       [] action = "todo" ->
            runScriptCmd(BinDir \o <<"mc-edit">>, <<expandedPath, <<"TODO.md">> >>)
       [] action = "chat" -> runScriptCmd(BinDir \o <<"mc-chat">>, <<expandedPath>>)

\* the actions that have both a key and a button, with the file they edit
FileActions ==
  {[key |-> "r", action |-> "readme", file |-> "README.md"],
   [key |-> "R", action |-> "roadmap", file |-> "ROADMAP.md"],
   [key |-> "p", action |-> "plan", file |-> "PLAN.md"],
   [key |-> "t", action |-> "todo", file |-> "TODO.md"]}

\* C30: for every project on the list and each of README.md, ROADMAP.md,
\* PLAN.md and TODO.md, the command a click on the button starts is the
\* command the key starts, for the same project and file.
C30_ClickEqualsKey ==
  \A i \in 1..Len(filtered) : \A a \in FileActions :
    executeAction(a.action, filtered[i]) = openInEditorCmd(filtered[i].Path, a.file)

\* both paths name the same project directory and the same file
C30_SameTarget ==
  \A i \in 1..Len(filtered) : \A a \in FileActions :
    LET click == executeAction(a.action, filtered[i])
        key == openInEditorCmd(filtered[i].Path, a.file)
    IN click.args[1] \o click.args[2] = key.args[1]

\* ------------------------------------------------------------------------
\* Settling
\* ------------------------------------------------------------------------
\* no load and no probe is in flight
Settled ==
  /\ run = "running"
  /\ pendingLoads = 0
  /\ \A k \in DOMAIN pendingProbes : pendingProbes[k] = 0

\* C31: once every load and every probe result has been processed, the stats
\* are the fold of the registry and the filtered list is the filter of the
\* registry with its current field values, whatever the order of the results,
\* with or without a filter, and also when the refreshed list is empty.
C31_SettlesConsistent ==
  Settled =>
    /\ stats = updateStats(projects)
    /\ filtered = Projection(projects, searchText)

\* the stats part alone, when the last load delivered projects
C31_StatsSettle ==
  (Settled /\ projects # <<>>) => stats = updateStats(projects)

\* the filtered part alone
C31_FilteredSettle ==
  Settled => filtered = Projection(projects, searchText)

\* the filtered part alone, when no filter is active
C31_UnfilteredSettle ==
  (Settled /\ searchText = <<>>) => filtered = projects

\* ------------------------------------------------------------------------
\* The selection and the rendered window
\* ------------------------------------------------------------------------
\* the selected row is one of the rows the list window renders
SelectionInWindow ==
  /\ scrollOffset <= selectedIdx
  /\ selectedIdx < scrollOffset + getListHeight(height)

\* C32: in every reachable state with a non-empty filtered list the selected
\* row lies inside the rendered window, scrollOffset <= selectedIdx <
\* scrollOffset + listHeight with listHeight = max(height - 8, 5), after every
\* kind of event.
C32_SelectionInWindow == filtered # <<>> => SelectionInWindow

\* a terminal resize keeps a selection that was inside the window inside it
C32_ResizeKeepsWindow ==
  [][(ev'.type = "resize" /\ filtered # <<>> /\ SelectionInWindow)
       => SelectionInWindow']_vars

\* every event other than a resize and a load keeps a selection that was
\* inside the list and inside the window inside the window
C32_OtherEventsKeepWindow ==
  [][(ev'.type \notin {"resize", "projectsLoaded"}
        /\ filtered # <<>> /\ filtered' # <<>>
        /\ selectedIdx + 1 \in DOMAIN filtered
        /\ SelectionInWindow)
       => SelectionInWindow']_vars

\* ------------------------------------------------------------------------
\* The modes
\* ------------------------------------------------------------------------
\* the keys that return from a mode to the list
LeaveKeys == {"q", "ctrl+c", "esc"}

\* C33: Search, Chat, Detail and Help mode are entered only from list mode,
\* and while the mode is Detail or Help every key other than q, ctrl+c and
\* Esc changes no state and dispatches nothing.
C33_DetailAndHelpAreInert ==
  [][/\ (viewMode' # viewMode /\ viewMode' # "ListView") => viewMode = "ListView"
     /\ (ev'.type = "key" /\ viewMode \in {"DetailView", "HelpMode"}
           /\ ev'.key \notin LeaveKeys)
          => (ModelState' = ModelState /\ cmds' = <<>>)]_vars

\* in Detail and Help mode q, ctrl+c and Esc return to list mode
C33_LeaveKeysReturn ==
  [][(ev'.type = "key" /\ viewMode \in {"DetailView", "HelpMode"}
        /\ ev'.key \in LeaveKeys)
       => viewMode' = "ListView"]_vars

\* ------------------------------------------------------------------------
\* The chat loading flag
\* ------------------------------------------------------------------------
\* C34: chatLoading is true exactly when a chat send has been dispatched whose
\* result has not been processed yet.
C34_LoadingIffOutstanding ==
  run = "running" => (chatLoading <=> pendingChats # <<>>)

\* the flag is false once every result has been processed
C34_IdleNotLoading ==
  (run = "running" /\ pendingChats = <<>>) => ~chatLoading

\* ------------------------------------------------------------------------
\* The list on the screen and the click rows
\* ------------------------------------------------------------------------
\* View writes the top status line and a newline, ...
TopStatusLines == 1

\* ... then the search box, one content line inside a rounded border ...
SearchBoxLines == 3

\* ... then the project list: the zero-based screen line of its viewport row r
DrawnLine(r) == TopStatusLines + SearchBoxLines + r

\* the viewport rows on which the frame shows a project
DrawnRows ==
  {r \in 0..(getListHeight(height) - 1) : scrollOffset + r < Len(filtered)}

\* the selection after a left click on screen line y
ClickSelects(y) == handleMouse(M, [type |-> "left", x |-> 0, y |-> y]).selectedIdx

\* C35: the screen line on which View draws row r of the list is the line
\* handleMouse maps back to row r: a left click on a drawn row selects the
\* project shown on it, scrollOffset + r.
C35_ClickHitsDrawnRow ==
  (ListFrame /\ scrollOffset >= 0) =>
    \A r \in DrawnRows : ClickSelects(DrawnLine(r)) = scrollOffset + r

\* a left click on a drawn row selects the project shown one row below it,
\* and nothing when that row is past the viewport or the list
C35_ClickHitsRowBelow ==
  (ListFrame /\ scrollOffset >= 0) =>
    \A r \in DrawnRows :
      ClickSelects(DrawnLine(r)) =
        IF r + 1 < getListHeight(height) /\ scrollOffset + r + 1 < Len(filtered)
        THEN scrollOffset + r + 1
        ELSE selectedIdx

\* ------------------------------------------------------------------------
\* The scrollbar track
\* ------------------------------------------------------------------------
\* C36: whenever the scrollbar is drawn the thumb lies inside the track:
\* 0 <= thumbPos and thumbPos + thumbSize <= listHeight.
C36_ThumbInsideTrack ==
  (ListFrame /\ Scrollbar.thumb) =>
    /\ 0 <= Scrollbar.thumbPos
    /\ Scrollbar.thumbPos + Scrollbar.thumbSize <= getListHeight(height)

\* the same while the scroll offset is one that shows a full window
C36_Guarded ==
  (ListFrame /\ Scrollbar.thumb
     /\ scrollOffset <= Len(filtered) - getListHeight(height)) =>
    /\ 0 <= Scrollbar.thumbPos
    /\ Scrollbar.thumbPos + Scrollbar.thumbSize <= getListHeight(height)

\* ------------------------------------------------------------------------
\* Classification of web projects
\* ------------------------------------------------------------------------
\* the spellings of TSX that tokei-style language names come in
TsxNames == {<<"T", "S", "X">>, <<"t", "s", "x">>}

\* the spellings of TypeScript and JavaScript
ScriptNames ==
  {<<"T", "y", "p", "e", "S", "c", "r", "i", "p", "t">>,
   <<"t", "y", "p", "e", "s", "c", "r", "i", "p", "t">>,
   <<"J", "a", "v", "a", "S", "c", "r", "i", "p", "t">>,
   <<"j", "a", "v", "a", "s", "c", "r", "i", "p", "t">>}

\* the type of registry project i once language lang is detected for it and
\* its directory holds none of the marker files
TypeWith(i, lang) == detectProjectType([projects[i] EXCEPT !.Language = lang], {})

\* C37: a project without any of the markers is classified as Vercel (web)
\* whenever its detected language is TSX, TypeScript or JavaScript, in any
\* letter case.
C37_WebLanguagesAreVercel ==
  \A i \in 1..Len(projects) : \A lang \in TsxNames \cup ScriptNames :
    TypeWith(i, lang) = "vercel"

\* TSX is classified as Vercel
C37_TsxIsVercel ==
  \A i \in 1..Len(projects) : \A lang \in TsxNames : TypeWith(i, lang) = "vercel"

\* TypeScript and JavaScript fall back to the git type
C37_ScriptsAreGit ==
  \A i \in 1..Len(projects) : \A lang \in ScriptNames : TypeWith(i, lang) = "git"

\* ------------------------------------------------------------------------
\* The status cache (CacheSpec)
\* ------------------------------------------------------------------------
\* no probe is between its start and its completion
ProbesCompleted == \A k \in CacheProbes : probe[k].pc \in {"idle", "done"}

\* C38: when the git-status, language and git-times probes of one project
\* run concurrently, no cache write is lost: once all of them have completed
\* the cache file holds, for every field, the value last written through
\* UpdateProjectCache (the cache never having expired in between).
C38_NoLostWrite ==
  (ProbesCompleted /\ ~aged) => cacheFile = written

\* C38, sequential case: a save whose probe loaded the file as it still is
\* leaves the file with every value written so far, while the cache has not
\* expired.
C38_SequentialKeeps ==
  [][\A k \in CacheProbes :
       (/\ probe[k].pc = "save" /\ probe'[k].pc = "done"
        /\ probe[k].seen = cacheFile /\ cacheFile = written /\ ~aged)
       => cacheFile' = written']_vars

\* probe k runs the second half of UpdateProjectCache on the file it loaded
SavesWhatItLoaded(k) ==
  /\ probe[k].pc = "save"
  /\ probe'[k].pc = "done"
  /\ probe[k].seen = cacheFile

\* C39: UpdateProjectCache(path, f) changes only the fields f sets: every
\* other field stored in the cache file before the call has the same value
\* after it, whatever the age of the stored cache.
C39_UpdateKeepsOtherFields ==
  [][\A k \in CacheProbes :
       SavesWhatItLoaded(k)
       => \A f \in CacheFields \ DOMAIN probe[k].val : cacheFile'[f] = cacheFile[f]]_vars

\* C39, fresh cache: when LoadProjectCache returned the stored cache, the
\* other fields are kept.
C39_FreshUpdateKeepsOtherFields ==
  [][\A k \in CacheProbes :
       (SavesWhatItLoaded(k) /\ probe[k].cache = probe[k].seen)
       => \A f \in CacheFields \ DOMAIN probe[k].val : cacheFile'[f] = cacheFile[f]]_vars

\* C40: every GetGitTimes call returns as last-commit time the value it read
\* from git during that call.
C40_LastCommitIsFresh ==
  probe["times"].pc = "done"
  => (probe["times"].read # 0 /\ probe["times"].last = probe["times"].read)

\* C40, when git was asked: the returned last-commit time is the one read.
C40_ReadIsReturned ==
  (probe["times"].pc = "done" /\ probe["times"].read # 0)
  => probe["times"].last = probe["times"].read

\* a GetGitTimes call has returned a last-commit time older than the
\* repository's newest commit without asking git
C40_StaleReturned ==
  /\ probe["times"].pc = "done"
  /\ probe["times"].read = 0
  /\ probe["times"].last # repoLast

====
